---- MODULE Spec2Model ----
(***************************************************************************)
(* Model of the broadband comparison URL generator (url_generator.py):     *)
(* the BroadbandParams schema with its postcode and provider validators,   *)
(* and URLGenerator.generate, which encodes a parameter set as a           *)
(* query+fragment URL.  Strings are sequences of one-character strings, so *)
(* that normalisation, the postcode pattern, percent-encoding and message  *)
(* formatting are computed character by character.  An optional value is   *)
(* <<>> (None / key absent) or <<v>> (the value v).                        *)
(***************************************************************************)
EXTENDS Integers, Sequences, FiniteSets, TLC

(* ------------------------------------------------------------------ *)
(* Characters and generic string functions (Python str methods).       *)
(* ------------------------------------------------------------------ *)
UpperLetters ==
  <<"A","B","C","D","E","F","G","H","I","J","K","L","M",
    "N","O","P","Q","R","S","T","U","V","W","X","Y","Z">>

LowerLetters ==
  <<"a","b","c","d","e","f","g","h","i","j","k","l","m",
    "n","o","p","q","r","s","t","u","v","w","x","y","z">>

DigitChars ==
  <<"0","1","2","3","4","5","6","7","8","9">>

Range(f) ==
  { f[i] : i \in DOMAIN f }

IsUpperLetter(c) ==
  c \in Range(UpperLetters)

IsLetter(c) ==
  c \in Range(UpperLetters) \cup Range(LowerLetters)

IsDigit(c) ==
  c \in Range(DigitChars)

\* The characters str.strip() removes and the pattern's \s matches.
IsWhitespace(c) ==
  c \in {" ", "\t", "\n", "\r", "\f"}

None ==
  <<>>

Some(v) ==
  <<v>>

IsSet(o) ==
  o # <<>>

Val(o) ==
  o[1]

\* str.upper() on one character.
UpperChar(c) ==
  IF \E i \in 1..26 : LowerLetters[i] = c
    THEN UpperLetters[CHOOSE i \in 1..26 : LowerLetters[i] = c]
    ELSE c

RECURSIVE StrUpper(_)
StrUpper(s) ==
  IF s = <<>> THEN <<>> ELSE <<UpperChar(Head(s))>> \o StrUpper(Tail(s))

RECURSIVE LStrip(_)
LStrip(s) ==
  IF s # <<>> /\ IsWhitespace(Head(s)) THEN LStrip(Tail(s)) ELSE s

RECURSIVE RStrip(_)
RStrip(s) ==
  IF s # <<>> /\ IsWhitespace(s[Len(s)]) THEN RStrip(SubSeq(s, 1, Len(s) - 1)) ELSE s

\* str.strip()
Strip(s) ==
  RStrip(LStrip(s))

\* str.replace(c, r): every occurrence of the character c becomes the string r.
RECURSIVE Replace(_, _, _)
Replace(s, c, r) ==
  IF s = <<>> THEN <<>>
  ELSE (IF Head(s) = c THEN r ELSE <<Head(s)>>) \o Replace(Tail(s), c, r)

\* c in s
Contains(s, c) ==
  \E i \in 1..Len(s) : s[i] = c

\* sep.join(parts)
RECURSIVE Join(_, _)
Join(parts, sep) ==
  IF parts = <<>> THEN <<>>
  ELSE IF Len(parts) = 1 THEN parts[1]
  ELSE parts[1] \o sep \o Join(Tail(parts), sep)

\* sub in s (substring test, used to read messages and URLs)
IsSubstring(sub, s) ==
  \E i \in 1..(Len(s) - Len(sub) + 1) : SubSeq(s, i, i + Len(sub) - 1) = sub

StartsWith(s, p) ==
  Len(p) <= Len(s) /\ SubSeq(s, 1, Len(p)) = p

(* ------------------------------------------------------------------ *)
(* Allowed values (url_generator.py lines 29-89).                      *)
(* ------------------------------------------------------------------ *)
VALID_SPEEDS ==
  << <<"1","0","M","b">>,
     <<"3","0","M","b">>,
     <<"5","5","M","b">>,
     <<"1","0","0","M","b">> >>

VALID_CONTRACT_LENGTHS ==
  << <<"1","2"," ","m","o","n","t","h","s">>,
     <<"1","8"," ","m","o","n","t","h","s">>,
     <<"2","4"," ","m","o","n","t","h","s">> >>

VALID_PHONE_CALLS ==
  << <<"C","h","e","a","p","e","s","t">>,
     <<"S","h","o","w"," ","m","e"," ","e","v","e","r","y","t","h","i","n","g">>,
     <<"E","v","e","n","i","n","g"," ","a","n","d"," ","W","e","e","k","e","n","d">>,
     <<"A","n","y","t","i","m","e">>,
     <<"N","o"," ","i","n","c","l","u","s","i","v","e">>,
     <<"N","o"," ","p","h","o","n","e"," ","l","i","n","e">> >>

VALID_PRODUCT_TYPES ==
  << <<"b","r","o","a","d","b","a","n","d">>,
     <<"b","r","o","a","d","b","a","n","d",",","p","h","o","n","e">>,
     <<"b","r","o","a","d","b","a","n","d",",","p","h","o","n","e",",","t","v">> >>

VALID_SORT_BY ==
  << <<"R","e","c","o","m","m","e","n","d","e","d">>,
     <<"F","i","r","s","t"," ","Y","e","a","r"," ","C","o","s","t">>,
     <<"A","v","g","."," ","M","o","n","t","h","l","y"," ","C","o","s","t">>,
     <<"T","o","t","a","l"," ","C","o","n","t","r","a","c","t"," ","C","o","s","t">>,
     <<"S","e","t","u","p"," ","C","o","s","t","s">>,
     <<"C","o","n","t","r","a","c","t"," ","L","e","n","g","t","h">>,
     <<"S","p","e","e","d">>,
     <<"U","s","a","g","e">> >>

\* The enum classes that type the fields: each is the sequence of the values of its members.
Speed ==
  << <<"1","0","M","b">>,
     <<"3","0","M","b">>,
     <<"5","5","M","b">>,
     <<"1","0","0","M","b">> >>

ContractLength ==
  << <<"1","2"," ","m","o","n","t","h","s">>,
     <<"1","8"," ","m","o","n","t","h","s">>,
     <<"2","4"," ","m","o","n","t","h","s">> >>

PhoneCalls ==
  << <<"C","h","e","a","p","e","s","t">>,
     <<"S","h","o","w"," ","m","e"," ","e","v","e","r","y","t","h","i","n","g">>,
     <<"E","v","e","n","i","n","g"," ","a","n","d"," ","W","e","e","k","e","n","d">>,
     <<"A","n","y","t","i","m","e">>,
     <<"N","o"," ","i","n","c","l","u","s","i","v","e">>,
     <<"N","o"," ","p","h","o","n","e"," ","l","i","n","e">> >>

ProductType ==
  << <<"b","r","o","a","d","b","a","n","d">>,
     <<"b","r","o","a","d","b","a","n","d",",","p","h","o","n","e">>,
     <<"b","r","o","a","d","b","a","n","d",",","p","h","o","n","e",",","t","v">> >>

SortBy ==
  << <<"R","e","c","o","m","m","e","n","d","e","d">>,
     <<"F","i","r","s","t"," ","Y","e","a","r"," ","C","o","s","t">>,
     <<"A","v","g","."," ","M","o","n","t","h","l","y"," ","C","o","s","t">>,
     <<"T","o","t","a","l"," ","C","o","n","t","r","a","c","t"," ","C","o","s","t">>,
     <<"S","e","t","u","p"," ","C","o","s","t","s">>,
     <<"C","o","n","t","r","a","c","t"," ","L","e","n","g","t","h">>,
     <<"S","p","e","e","d">>,
     <<"U","s","a","g","e">> >>

\* The enum class of each enum-typed field of BroadbandParams.
EnumValues(field) ==
  CASE field = "speedInMb" -> Speed
    [] field = "contractLength" -> ContractLength
    [] field = "phoneCalls" -> PhoneCalls
    [] field = "productType" -> ProductType
    [] field = "sortBy" -> SortBy

EnumFields ==
  {"speedInMb", "contractLength", "phoneCalls", "productType", "sortBy"}
(* ------------------------------------------------------------------ *)
(* Message texts.                                                      *)
(* ------------------------------------------------------------------ *)
\* pydantic's message for a required field that the input lacks.
MSG_FIELD_REQUIRED ==
  <<"F","i","e","l","d"," ","r","e","q","u","i","r","e","d">>

\* pydantic prefixes the text of a ValueError raised by a validator.
MSG_VALUE_ERROR_PREFIX ==
  <<"V","a","l","u","e"," ","e","r","r","o","r",","," ">>

MSG_POSTCODE_EMPTY ==
  <<"p","o","s","t","c","o","d","e"," ","m","u","s","t"," ","b","e"," ","a"," ","n","o","n","-","e","m","p","t","y"," ","s","t","r","i","n","g">>

MSG_POSTCODE_FORMAT ==
  <<"I","n","v","a","l","i","d"," ","U","K"," ","p","o","s","t","c","o","d","e"," ","f","o","r","m","a","t",":"," ">>

\* pydantic's message for a value outside an enum: "Input should be 'a', 'b' or 'c'".
MSG_INPUT_SHOULD_BE ==
  <<"I","n","p","u","t"," ","s","h","o","u","l","d"," ","b","e"," ">>

MSG_INVALID_PARAMETERS ==
  <<"I","n","v","a","l","i","d"," ","p","a","r","a","m","e","t","e","r","s",":"," ">>

MSG_FAILED_URL ==
  <<"F","a","i","l","e","d"," ","t","o"," ","g","e","n","e","r","a","t","e"," ","v","a","l","i","d"," ","U","R","L",":"," ">>

MSG_URL_SCHEME ==
  <<"U","R","L"," ","s","c","h","e","m","e"," ","s","h","o","u","l","d"," ","b","e"," ","'","h","t","t","p","'"," ","o","r"," ","'","h","t","t","p","s","'">>

MSG_URL_EMPTY_HOST ==
  <<"I","n","p","u","t"," ","s","h","o","u","l","d"," ","b","e"," ","a"," ","v","a","l","i","d"," ","U","R","L",","," ","e","m","p","t","y"," ","h","o","s","t">>

(* ------------------------------------------------------------------ *)
(* BroadbandParams: validators.  A validator returns [ok, value, msg]:  *)
(* ok = FALSE stands for the ValueError it raises, with text msg.       *)
(* ------------------------------------------------------------------ *)
Return(v) ==
  [ok |-> TRUE, value |-> v, msg |-> <<>>]

Raise(m) ==
  [ok |-> FALSE, value |-> <<>>, msg |-> m]

\* Mutant: the space goes before the final two characters.
normalize_postcode_input_SplitTwo(v) ==
  IF Strip(v) = <<>>
    THEN Raise(MSG_POSTCODE_EMPTY)
    ELSE LET s == StrUpper(Strip(v))
         IN  IF Len(s) > 3 /\ ~Contains(s, " ")
               THEN Return(SubSeq(s, 1, Len(s) - 2) \o <<" ">> \o SubSeq(s, Len(s) - 1, Len(s)))
               ELSE Return(s)

\* Mutant: a blank postcode is not refused before the format check.
normalize_postcode_input_NoEmptyCheck(v) ==
  LET s == StrUpper(Strip(v))
  IN  IF Len(s) > 3 /\ ~Contains(s, " ")
        THEN Return(SubSeq(s, 1, Len(s) - 3) \o <<" ">> \o SubSeq(s, Len(s) - 2, Len(s)))
        ELSE Return(s)

\* v is the raw postcode, a string.
normalize_postcode_input(v) ==
  IF Strip(v) = <<>>
    THEN Raise(MSG_POSTCODE_EMPTY)
    ELSE LET s == StrUpper(Strip(v))
         IN  IF Len(s) > 3 /\ ~Contains(s, " ")
               THEN Return(SubSeq(s, 1, Len(s) - 3) \o <<" ">> \o SubSeq(s, Len(s) - 2, Len(s)))
               ELSE Return(s)

\* re.match(UK_POSTCODE_REGEX, s): ^[A-Z]{1,2}\d[A-Z0-9]?\s*\d[A-Z]{2}$
\* a letters, a digit, b letters-or-digits, k whitespace, a digit, two letters;
\* $ also matches just before one final newline.
UK_POSTCODE_REGEX(s) ==
  \E a \in 1..2, b \in 0..1, k \in 0..Len(s), nl \in 0..1 :
    /\ Len(s) = a + 1 + b + k + 3 + nl
    /\ \A i \in 1..a : IsUpperLetter(s[i])
    /\ IsDigit(s[a + 1])
    /\ \A i \in (a + 2)..(a + 1 + b) : IsUpperLetter(s[i]) \/ IsDigit(s[i])
    /\ \A i \in (a + b + 2)..(a + b + 1 + k) : IsWhitespace(s[i])
    /\ IsDigit(s[a + b + k + 2])
    /\ IsUpperLetter(s[a + b + k + 3])
    /\ IsUpperLetter(s[a + b + k + 4])
    /\ nl = 1 => s[Len(s)] = "\n"

\* v is the normalised postcode.
validate_postcode_format(v) ==
  IF ~UK_POSTCODE_REGEX(Replace(v, " ", <<>>))
    THEN Raise(MSG_POSTCODE_FORMAT \o v)
    ELSE Return(v)

\* str.split(","): the pieces between commas (always at least one piece).
RECURSIVE SplitComma(_)
SplitComma(s) ==
  IF ~Contains(s, ",") THEN <<s>>
  ELSE LET i == CHOOSE j \in 1..Len(s) : s[j] = "," /\ \A h \in 1..(j - 1) : s[h] # ","
       IN  <<SubSeq(s, 1, i - 1)>> \o SplitComma(SubSeq(s, i + 1, Len(s)))

\* Mutant: the pieces are kept as they are, not trimmed.
RECURSIVE StripNonEmpty_NoTrim(_)
StripNonEmpty_NoTrim(parts) ==
  IF parts = <<>> THEN <<>>
  ELSE (IF Strip(Head(parts)) = <<>> THEN <<>> ELSE <<Head(parts)>>)
         \o StripNonEmpty_NoTrim(Tail(parts))

\* [p.strip() for p in parts if p.strip()]
RECURSIVE StripNonEmpty(_)
StripNonEmpty(parts) ==
  IF parts = <<>> THEN <<>>
  ELSE (IF Strip(Head(parts)) = <<>> THEN <<>> ELSE <<Strip(Head(parts))>>)
         \o StripNonEmpty(Tail(parts))

\* The decimal digits of a natural number.
RECURSIVE Decimal(_)
Decimal(n) ==
  IF n < 10 THEN <<DigitChars[n + 1]>>
  ELSE Decimal(n \div 10) \o <<DigitChars[(n % 10) + 1]>>

\* str(p) for an element of a providers list: a string is itself, an integer
\* (written <<"int", n>>) is its decimal digits.
str(p) ==
  IF Len(p) = 2 /\ p[1] = "int" THEN Decimal(p[2]) ELSE p

RECURSIVE StrEach(_)
StrEach(l) ==
  IF l = <<>> THEN <<>> ELSE <<str(Head(l))>> \o StrEach(Tail(l))

\* v is the raw providers value: None, <<"str", s>> or <<"list", l>> wrapped as
\* an optional.  The result is the optional list stored in the model.
coerce_providers(v) ==
  IF v = None THEN None
  ELSE IF Val(v)[1] = "list" THEN Some(StripNonEmpty(StrEach(Val(v)[2])))
  ELSE LET parts == StripNonEmpty(SplitComma(Val(v)[2]))
       IN  IF parts = <<>> THEN None ELSE Some(parts)
(* ------------------------------------------------------------------ *)
(* BroadbandParams: construction from a raw mapping.                    *)
(* A raw mapping gives every field an optional raw value (None: the key *)
(* is absent).  Validation visits the fields in their declared order    *)
(* and collects one error [loc, msg, input] per failing field.          *)
(* ------------------------------------------------------------------ *)
FieldNames ==
  <<"postcode", "speedInMb", "contractLength", "phoneCalls", "productType",
    "providers", "currentProvider", "newLine", "sortBy",
    "addressId", "matryoshkaSpeed", "openProduct", "tab", "tvChannels">>

DEFAULT_MATRYOSHKA_SPEED ==
  <<"B","r","o","a","d","b","a","n","d">>

DEFAULT_TAB ==
  <<"a","l","l","d","e","a","l","s">>

Error(loc, msg, input) ==
  [loc |-> loc, msg |-> msg, input |-> input]

RECURSIVE QuoteEach(_)
QuoteEach(values) ==
  IF values = <<>> THEN <<>>
  ELSE <<(<<"'">> \o Head(values) \o <<"'">>)>> \o QuoteEach(Tail(values))

\* pydantic's rendering of an enum's members: 'a', 'b' or 'c'
ExpectedValues(values) ==
  LET q == QuoteEach(values)
  IN  IF Len(q) = 1 THEN q[1]
      ELSE Join(SubSeq(q, 1, Len(q) - 1), <<","," ">>) \o <<" ","o","r"," ">> \o q[Len(q)]

\* The postcode field: required; normalize_postcode_input runs first (pre=True)
\* and validate_postcode_format only on what it returns.
PostcodeField(raw) ==
  IF raw = None THEN Raise(MSG_FIELD_REQUIRED)
  ELSE LET n == normalize_postcode_input(Val(raw))
       IN  IF ~n.ok THEN Raise(MSG_VALUE_ERROR_PREFIX \o n.msg)
           ELSE LET f == validate_postcode_format(n.value)
                IN  IF ~f.ok THEN Raise(MSG_VALUE_ERROR_PREFIX \o f.msg)
                    ELSE Return(f.value)

\* Mutant: the raw string is matched against the members ignoring case.
EnumField_IgnoreCase(field, raw) ==
  IF raw = None THEN Return(None)
  ELSE IF \E i \in 1..Len(EnumValues(field)) :
            StrUpper(EnumValues(field)[i]) = StrUpper(Val(raw))
    THEN Return(raw)
    ELSE Raise(MSG_INPUT_SHOULD_BE \o ExpectedValues(EnumValues(field)))

\* An Optional[Enum] field: the raw string must equal a member's value.
EnumField(field, raw) ==
  IF raw = None THEN Return(None)
  ELSE IF \E i \in 1..Len(EnumValues(field)) : EnumValues(field)[i] = Val(raw)
    THEN Return(raw)
    ELSE Raise(MSG_INPUT_SHOULD_BE \o ExpectedValues(EnumValues(field)))

PostcodeErrors(raw) ==
  IF PostcodeField(raw.postcode).ok THEN <<>>
  ELSE <<Error("postcode", PostcodeField(raw.postcode).msg,
               IF raw.postcode = None THEN <<>> ELSE Val(raw.postcode))>>

EnumErrors(field, raw) ==
  IF EnumField(field, raw[field]).ok THEN <<>>
  ELSE <<Error(field, EnumField(field, raw[field]).msg, Val(raw[field]))>>

\* Mutant: validation stops at the first field that fails.
ValidationErrors_FirstOnly(raw) ==
  LET all == PostcodeErrors(raw)
               \o EnumErrors("speedInMb", raw)
               \o EnumErrors("contractLength", raw)
               \o EnumErrors("phoneCalls", raw)
               \o EnumErrors("productType", raw)
               \o EnumErrors("sortBy", raw)
  IN  IF all = <<>> THEN <<>> ELSE <<all[1]>>

\* ValidationError.errors(), in field order.
ValidationErrors(raw) ==
  PostcodeErrors(raw)
    \o EnumErrors("speedInMb", raw)
    \o EnumErrors("contractLength", raw)
    \o EnumErrors("phoneCalls", raw)
    \o EnumErrors("productType", raw)
    \o EnumErrors("sortBy", raw)

\* The model instance built from a raw mapping that validates.
BroadbandParams(raw) ==
  [postcode |-> PostcodeField(raw.postcode).value,
   speedInMb |-> raw.speedInMb,
   contractLength |-> raw.contractLength,
   phoneCalls |-> raw.phoneCalls,
   productType |-> raw.productType,
   providers |-> coerce_providers(raw.providers),
   currentProvider |-> raw.currentProvider,
   newLine |-> raw.newLine,
   sortBy |-> raw.sortBy,
   addressId |-> IF raw.addressId = None THEN Some(<<>>) ELSE raw.addressId,
   matryoshkaSpeed |-> IF raw.matryoshkaSpeed = None THEN DEFAULT_MATRYOSHKA_SPEED
                       ELSE Val(raw.matryoshkaSpeed),
   openProduct |-> IF raw.openProduct = None THEN Some(<<>>) ELSE raw.openProduct,
   tab |-> IF raw.tab = None THEN DEFAULT_TAB ELSE Val(raw.tab),
   tvChannels |-> IF raw.tvChannels = None THEN Some(<<>>) ELSE raw.tvChannels]

\* helper to produce a URL-safe postcode (E14+9WB)
postcode_for_url(params) ==
  Replace(params.postcode, " ", <<"+">>)

\* The order in which get_missing_parameters visits the optional fields.
MissingOrder ==
  <<"speedInMb", "contractLength", "phoneCalls", "productType", "sortBy">>

RECURSIVE MissingAmong(_, _)
MissingAmong(names, params) ==
  IF names = <<>> THEN <<>>
  ELSE (IF params[Head(names)] = None THEN <<Head(names)>> ELSE <<>>)
         \o MissingAmong(Tail(names), params)

\* Mutant: sortBy is not looked at.
get_missing_parameters_NoSortBy(params) ==
  MissingAmong(<<"speedInMb", "contractLength", "phoneCalls", "productType">>, params)

\* Mutant: a field set to the value the URL defaults to is reported as not set.
get_missing_parameters_DefaultsUnset(params) ==
  MissingAmong(MissingOrder,
               [params EXCEPT !.sortBy = IF @ = Some(<<"R","e","c","o","m","m","e","n","d","e","d">>)
                                           THEN None ELSE @])

get_missing_parameters(params) ==
  MissingAmong(MissingOrder, params)

\* model_dump(exclude_none=True): the fields whose value is not None.
model_dump(params) ==
  LET optional == {"speedInMb", "contractLength", "phoneCalls", "productType", "providers",
                   "currentProvider", "newLine", "sortBy", "addressId", "openProduct",
                   "tvChannels"}
      present == {"postcode", "matryoshkaSpeed", "tab"}
                   \cup {f \in optional : params[f] # None}
  IN  [f \in present |-> IF f \in optional THEN Val(params[f]) ELSE params[f]]
(* ------------------------------------------------------------------ *)
(* urllib.parse.quote                                                  *)
(* ------------------------------------------------------------------ *)
\* The printable ASCII characters, code 32 (space) to 126 (~), in order; the
\* grave accent (code 96) is spelled out, so that every index is code - 31.
PrintableAscii ==
  <<" ","!","\"","#","$","%","&","'","(",")","*","+",",","-",".","/",
    "0","1","2","3","4","5","6","7","8","9",":",";","<","=",">","?",
    "@","A","B","C","D","E","F","G","H","I","J","K","L","M","N","O",
    "P","Q","R","S","T","U","V","W","X","Y","Z","[","\\","]","^","_",
    "(grave)","a","b","c","d","e","f","g","h","i","j","k","l","m","n","o",
    "p","q","r","s","t","u","v","w","x","y","z","{","|","}","~">>

HexDigits ==
  <<"0","1","2","3","4","5","6","7","8","9","A","B","C","D","E","F">>

\* ord(c)
Ord(c) ==
  CASE c = "\t" -> 9
    [] c = "\n" -> 10
    [] c = "\f" -> 12
    [] c = "\r" -> 13
    [] OTHER -> 31 + (CHOOSE i \in 1..Len(PrintableAscii) : PrintableAscii[i] = c)

\* Mutant: the separators of a query string are taken as safe as well.
IsQuoteSafe_Separators(c) ==
  IsLetter(c) \/ IsDigit(c) \/ c \in {"_", ".", "-", "~", "/", "&", "="}

\* The always-safe characters of quote plus its default safe set, the slash.
IsQuoteSafe(c) ==
  IsLetter(c) \/ IsDigit(c) \/ c \in {"_", ".", "-", "~", "/"}

QuoteChar(c) ==
  IF IsQuoteSafe(c) THEN <<c>>
  ELSE <<"%", HexDigits[(Ord(c) \div 16) + 1], HexDigits[(Ord(c) % 16) + 1]>>

\* quote(s)
RECURSIVE quote(_)
quote(s) ==
  IF s = <<>> THEN <<>> ELSE QuoteChar(Head(s)) \o quote(Tail(s))

(* ------------------------------------------------------------------ *)
(* URLGenerator.generate                                               *)
(* ------------------------------------------------------------------ *)
DEFAULT_BASE_URL ==
  <<"h","t","t","p","s",":","/","/","b","r","o","a","d","b","a","n","d",".","j","u","s","t","m","o","v","e","i","n",".","c","o","/","p","a","c","k","a","g","e","s">>

\* x or default, for an optional string x
OrElse(o, default) ==
  IF o # None /\ Val(o) # <<>> THEN Val(o) ELSE default

\* Mutant: newLine is written whenever it was given, true or false.
fragment_params_NewLineGiven(params) ==
  << <<"addressId", OrElse(params.addressId, <<>>)>>,
     <<"contractLength",
       IF params.contractLength # None THEN Val(params.contractLength) ELSE <<>> >>,
     <<"currentProvider", OrElse(params.currentProvider, <<>>)>>,
     <<"matryoshkaSpeed",
       IF params.matryoshkaSpeed # <<>> THEN params.matryoshkaSpeed ELSE <<"B","r","o","a","d","b","a","n","d">>>>,
     <<"newLine",
       IF params.newLine # None THEN <<"N","e","w","L","i","n","e">> ELSE <<>> >>,
     <<"openProduct", OrElse(params.openProduct, <<>>)>>,
     <<"phoneCalls", IF params.phoneCalls # None THEN Val(params.phoneCalls) ELSE <<>> >>,
     <<"productType",
       IF params.productType # None THEN Val(params.productType) ELSE <<"b","r","o","a","d","b","a","n","d">>>>,
     <<"providers",
       IF params.providers # None /\ Val(params.providers) # <<>>
         THEN Join(Val(params.providers), <<",">>) ELSE <<>> >>,
     <<"sortBy", IF params.sortBy # None THEN Val(params.sortBy) ELSE <<"R","e","c","o","m","m","e","n","d","e","d">>>>,
     <<"speedInMb", IF params.speedInMb # None THEN Val(params.speedInMb) ELSE <<>> >>,
     <<"tab", IF params.tab # <<>> THEN params.tab ELSE <<"a","l","l","d","e","a","l","s">>>>,
     <<"tvChannels", OrElse(params.tvChannels, <<>>)>> >>

\* Mutant: tab is written as it was given, without its default.
fragment_params_TabAsGiven(params) ==
  << <<"addressId", OrElse(params.addressId, <<>>)>>,
     <<"contractLength",
       IF params.contractLength # None THEN Val(params.contractLength) ELSE <<>> >>,
     <<"currentProvider", OrElse(params.currentProvider, <<>>)>>,
     <<"matryoshkaSpeed",
       IF params.matryoshkaSpeed # <<>> THEN params.matryoshkaSpeed ELSE <<"B","r","o","a","d","b","a","n","d">>>>,
     <<"newLine",
       IF params.newLine # None /\ Val(params.newLine) THEN <<"N","e","w","L","i","n","e">> ELSE <<>> >>,
     <<"openProduct", OrElse(params.openProduct, <<>>)>>,
     <<"phoneCalls", IF params.phoneCalls # None THEN Val(params.phoneCalls) ELSE <<>> >>,
     <<"productType",
       IF params.productType # None THEN Val(params.productType) ELSE <<"b","r","o","a","d","b","a","n","d">>>>,
     <<"providers",
       IF params.providers # None /\ Val(params.providers) # <<>>
         THEN Join(Val(params.providers), <<",">>) ELSE <<>> >>,
     <<"sortBy", IF params.sortBy # None THEN Val(params.sortBy) ELSE <<"R","e","c","o","m","m","e","n","d","e","d">>>>,
     <<"speedInMb", IF params.speedInMb # None THEN Val(params.speedInMb) ELSE <<>> >>,
     <<"tab", params.tab>>,
     <<"tvChannels", OrElse(params.tvChannels, <<>>)>> >>

\* The fragment_params dict, as its (key, value) items in insertion order.
fragment_params(params) ==
  << <<"addressId", OrElse(params.addressId, <<>>)>>,
     <<"contractLength",
       IF params.contractLength # None THEN Val(params.contractLength) ELSE <<>> >>,
     <<"currentProvider", OrElse(params.currentProvider, <<>>)>>,
     <<"matryoshkaSpeed",
       IF params.matryoshkaSpeed # <<>> THEN params.matryoshkaSpeed ELSE <<"B","r","o","a","d","b","a","n","d">>>>,
     <<"newLine",
       IF params.newLine # None /\ Val(params.newLine) THEN <<"N","e","w","L","i","n","e">> ELSE <<>> >>,
     <<"openProduct", OrElse(params.openProduct, <<>>)>>,
     <<"phoneCalls", IF params.phoneCalls # None THEN Val(params.phoneCalls) ELSE <<>> >>,
     <<"productType",
       IF params.productType # None THEN Val(params.productType) ELSE <<"b","r","o","a","d","b","a","n","d">>>>,
     <<"providers",
       IF params.providers # None /\ Val(params.providers) # <<>>
         THEN Join(Val(params.providers), <<",">>) ELSE <<>> >>,
     <<"sortBy", IF params.sortBy # None THEN Val(params.sortBy) ELSE <<"R","e","c","o","m","m","e","n","d","e","d">>>>,
     <<"speedInMb", IF params.speedInMb # None THEN Val(params.speedInMb) ELSE <<>> >>,
     <<"tab", IF params.tab # <<>> THEN params.tab ELSE <<"a","l","l","d","e","a","l","s">>>>,
     <<"tvChannels", OrElse(params.tvChannels, <<>>)>> >>

\* Mutant: the empty values are kept.
RemoveEmpty_KeepsAll(items) ==
  items

\* {k: v for k, v in fragment_params.items() if v}
RECURSIVE RemoveEmpty(_)
RemoveEmpty(items) ==
  IF items = <<>> THEN <<>>
  ELSE (IF Head(items)[2] # <<>> THEN <<Head(items)>> ELSE <<>>) \o RemoveEmpty(Tail(items))

\* A dict key as characters: keys are written into the URL as they are.
KeyChars(k) ==
  CASE k = "addressId" -> <<"a","d","d","r","e","s","s","I","d">>
    [] k = "contractLength" -> <<"c","o","n","t","r","a","c","t","L","e","n","g","t","h">>
    [] k = "currentProvider" -> <<"c","u","r","r","e","n","t","P","r","o","v","i","d","e","r">>
    [] k = "matryoshkaSpeed" -> <<"m","a","t","r","y","o","s","h","k","a","S","p","e","e","d">>
    [] k = "newLine" -> <<"n","e","w","L","i","n","e">>
    [] k = "openProduct" -> <<"o","p","e","n","P","r","o","d","u","c","t">>
    [] k = "phoneCalls" -> <<"p","h","o","n","e","C","a","l","l","s">>
    [] k = "productType" -> <<"p","r","o","d","u","c","t","T","y","p","e">>
    [] k = "providers" -> <<"p","r","o","v","i","d","e","r","s">>
    [] k = "sortBy" -> <<"s","o","r","t","B","y">>
    [] k = "speedInMb" -> <<"s","p","e","e","d","I","n","M","b">>
    [] k = "tab" -> <<"t","a","b">>
    [] k = "tvChannels" -> <<"t","v","C","h","a","n","n","e","l","s">>

\* [f"{k}={quote(str(v))}" for k, v in fragment_params.items()]
RECURSIVE EncodeItems(_)
EncodeItems(items) ==
  IF items = <<>> THEN <<>>
  ELSE <<(KeyChars(Head(items)[1]) \o <<"=">> \o quote(Head(items)[2]))>>
         \o EncodeItems(Tail(items))

\* Mutant: the fragment entries are written into the primary query string.
ComposeUrl_EntriesInQuery(base, params) ==
  LET items == RemoveEmpty(fragment_params(params))
      url == base \o <<"?","l","o","c","a","t","i","o","n","=">> \o quote(postcode_for_url(params))
  IN  IF items # <<>> THEN url \o <<"&">> \o Join(EncodeItems(items), <<"&">>) \o <<"#","/">>
      ELSE url \o <<"#","/">>

\* Lines 272-278: base + ?location=... #/ ?fragment-params
ComposeUrl(base, params) ==
  LET items == RemoveEmpty(fragment_params(params))
      url == base \o <<"?","l","o","c","a","t","i","o","n","=">> \o quote(postcode_for_url(params)) \o <<"#","/">>
  IN  IF items # <<>> THEN url \o <<"?">> \o Join(EncodeItems(items), <<"&">>) ELSE url
(* ------------------------------------------------------------------ *)
(* Scheme defaulting (urlparse / urlunparse) and HttpUrl validation.   *)
(* ------------------------------------------------------------------ *)
IsSchemeChar(c) ==
  IsLetter(c) \/ IsDigit(c) \/ c \in {"+", "-", "."}

\* Position of the first occurrence of a character of cs in s, or Len(s) + 1.
FirstOf(s, cs) ==
  IF \E i \in 1..Len(s) : s[i] \in cs
    THEN CHOOSE i \in 1..Len(s) : s[i] \in cs /\ \A h \in 1..(i - 1) : s[h] \notin cs
    ELSE Len(s) + 1

\* urlparse(url).scheme: the text before the first colon when it starts with a
\* letter and holds scheme characters only; otherwise empty.
UrlScheme(url) ==
  LET i == FirstOf(url, {":"})
  IN  IF i > 1 /\ i <= Len(url) /\ IsLetter(url[1])
           /\ \A h \in 1..(i - 1) : IsSchemeChar(url[h])
        THEN SubSeq(url, 1, i - 1)
        ELSE <<>>

\* Lines 281-284: a URL without a scheme is rebuilt with scheme https.  With a
\* network location (the URL starts with //) the rest is kept as it is; without
\* one, urlunparse writes an empty location and a rooted path.
EnsureScheme(url) ==
  IF UrlScheme(url) # <<>> THEN url
  ELSE IF StartsWith(url, <<"/","/">>) THEN <<"h","t","t","p","s",":">> \o url
  ELSE IF url # <<>> /\ url[1] \notin {"/", "?", "#"} THEN <<"h","t","t","p","s",":","/","/","/">> \o url
  ELSE <<"h","t","t","p","s",":","/","/">> \o url

RECURSIVE StripSlashes(_)
StripSlashes(s) ==
  IF s # <<>> /\ Head(s) = "/" THEN StripSlashes(Tail(s)) ELSE s

\* parse_obj_as(HttpUrl, url): the scheme must be http or https and the host
\* non-empty; the accepted URL is returned in normal form (scheme://host/path...).
\* Hosts are modelled in lower case, which the normal form keeps.
HttpUrl(url) ==
  LET scheme == UrlScheme(url)
      rest == StripSlashes(SubSeq(url, Len(scheme) + 2, Len(url)))
      hostEnd == FirstOf(rest, {"/", "?", "#"})
  IN  IF scheme \notin {<<"h","t","t","p">>, <<"h","t","t","p","s">>} THEN Raise(MSG_URL_SCHEME)
      ELSE IF hostEnd = 1 THEN Raise(MSG_URL_EMPTY_HOST)
      ELSE Return(scheme \o <<":","/","/">> \o SubSeq(rest, 1, hostEnd - 1)
                    \o (IF hostEnd > Len(rest) \/ rest[hostEnd] # "/" THEN <<"/">> ELSE <<>>)
                    \o SubSeq(rest, hostEnd, Len(rest)))

(* ------------------------------------------------------------------ *)
(* Messages and suggestions.                                           *)
(* ------------------------------------------------------------------ *)
RECURSIVE ErrorMsgs(_)
ErrorMsgs(errors) ==
  IF errors = <<>> THEN <<>> ELSE <<Head(errors).msg>> \o ErrorMsgs(Tail(errors))

\* Mutant: every error is joined into the message.
_format_validation_errors_All(errors) ==
  IF Len(errors) = 1 THEN errors[1].msg
  ELSE Join(ErrorMsgs(errors), <<";"," ">>)

_format_validation_errors(errors) ==
  IF Len(errors) = 1 THEN errors[1].msg
  ELSE Join(ErrorMsgs(SubSeq(errors, 1, IF Len(errors) < 3 THEN Len(errors) ELSE 3)), <<";"," ">>)

_build_success_message(params) ==
  LET filters_applied ==
        (IF params.speedInMb # None
           THEN <<(<<"s","p","e","e","d",":"," ">> \o Val(params.speedInMb))>> ELSE <<>>)
        \o (IF params.contractLength # None
              THEN <<(<<"c","o","n","t","r","a","c","t",":"," ">> \o Val(params.contractLength))>> ELSE <<>>)
        \o (IF params.providers # None /\ Val(params.providers) # <<>>
              THEN <<(<<"p","r","o","v","i","d","e","r","s",":"," ">> \o Join(Val(params.providers), <<","," ">>))>> ELSE <<>>)
        \o (IF params.productType # None
              THEN <<(<<"t","y","p","e",":"," ">> \o Val(params.productType))>> ELSE <<>>)
      base_msg == <<"G","e","n","e","r","a","t","e","d"," ","U","R","L"," ","f","o","r"," ","p","o","s","t","c","o","d","e"," ">> \o params.postcode
  IN  IF filters_applied # <<>>
        THEN base_msg \o <<" ","w","i","t","h"," ","f","i","l","t","e","r","s",":"," ">> \o Join(filters_applied, <<","," ">>)
        ELSE base_msg

SUGGEST_SPEED ==
  <<"C","o","n","s","i","d","e","r"," ","s","p","e","c","i","f","y","i","n","g"," ","a"," ","s","p","e","e","d"," ","p","r","e","f","e","r","e","n","c","e",":"," ">> \o Join(VALID_SPEEDS, <<","," ">>)

SUGGEST_CONTRACT ==
  <<"Y","o","u"," ","c","a","n"," ","f","i","l","t","e","r"," ","b","y"," ","c","o","n","t","r","a","c","t"," ","l","e","n","g","t","h",":"," ">> \o Join(VALID_CONTRACT_LENGTHS, <<","," ">>)

SUGGEST_PROVIDERS ==
  <<"Y","o","u"," ","c","a","n"," ","f","i","l","t","e","r"," ","b","y"," ","s","p","e","c","i","f","i","c"," ","p","r","o","v","i","d","e","r","s"," ","(","e",".","g",".",","," ","B","T",","," ","S","k","y",","," ","H","y","p","e","r","o","p","t","i","c",")">>

SUGGEST_SORT ==
  <<"T","r","y"," ","s","o","r","t","i","n","g"," ","b","y"," ","'","F","i","r","s","t"," ","Y","e","a","r"," ","C","o","s","t","'"," ","o","r"," ","'","A","v","g","."," ","M","o","n","t","h","l","y"," ","C","o","s","t","'"," ","f","o","r"," ","b","e","t","t","e","r"," ","d","e","a","l","s">>

\* Mutant: the list of suggestions is not cut.
_generate_suggestions_NoCap(params, missing) ==
  (IF \E i \in 1..Len(missing) : missing[i] = "speedInMb"
     THEN <<SUGGEST_SPEED>> ELSE <<>>)
  \o (IF \E i \in 1..Len(missing) : missing[i] = "contractLength"
        THEN <<SUGGEST_CONTRACT>> ELSE <<>>)
  \o (IF "providers" \notin DOMAIN model_dump(params)
        THEN <<SUGGEST_PROVIDERS>> ELSE <<>>)
  \o (IF params.sortBy = None \/ Val(params.sortBy) = <<"R","e","c","o","m","m","e","n","d","e","d">>
        THEN <<SUGGEST_SORT>> ELSE <<>>)

_generate_suggestions(params, missing) ==
  LET suggestions ==
        (IF \E i \in 1..Len(missing) : missing[i] = "speedInMb"
           THEN <<SUGGEST_SPEED>> ELSE <<>>)
        \o (IF \E i \in 1..Len(missing) : missing[i] = "contractLength"
              THEN <<SUGGEST_CONTRACT>> ELSE <<>>)
        \o (IF "providers" \notin DOMAIN model_dump(params)
              THEN <<SUGGEST_PROVIDERS>> ELSE <<>>)
        \o (IF params.sortBy = None \/ Val(params.sortBy) = <<"R","e","c","o","m","m","e","n","d","e","d">>
              THEN <<SUGGEST_SORT>> ELSE <<>>)
  IN  SubSeq(suggestions, 1, IF Len(suggestions) < 3 THEN Len(suggestions) ELSE 3)

(* ------------------------------------------------------------------ *)
(* URLGenerationResult and generate.                                   *)
(* ------------------------------------------------------------------ *)
URLGenerationResult(success, message, url, parameters_used, missing_parameters, suggestions) ==
  [success |-> success, message |-> message, url |-> url,
   parameters_used |-> parameters_used, missing_parameters |-> missing_parameters,
   suggestions |-> suggestions]

\* generate(params) for a BroadbandParams instance: lines 248-311.
generate(base, params) ==
  LET url == EnsureScheme(ComposeUrl(base, params))
      validated_url == HttpUrl(url)
      missing == get_missing_parameters(params)
  IN  IF validated_url.ok
        THEN URLGenerationResult(TRUE, _build_success_message(params),
                                 Some(validated_url.value), model_dump(params), missing,
                                 _generate_suggestions(params, missing))
        ELSE URLGenerationResult(FALSE, MSG_FAILED_URL \o validated_url.msg,
                                 None, model_dump(params), <<>>, <<>>)

\* Mutant: the failure result echoes the keys of the raw mapping.
generate_mapping_EchoesInput(base, raw) ==
  IF ValidationErrors(raw) # <<>>
    THEN URLGenerationResult(FALSE,
                             MSG_INVALID_PARAMETERS
                               \o _format_validation_errors(ValidationErrors(raw)),
                             None,
                             [f \in {k \in Range(FieldNames) : raw[k] # None} |-> Val(raw[f])],
                             <<>>, <<>>)
    ELSE generate(base, BroadbandParams(raw))

\* Mutant: the mapping's postcode is taken as given, not as validation stores it.
generate_mapping_RawPostcode(base, raw) ==
  IF ValidationErrors(raw) # <<>>
    THEN URLGenerationResult(FALSE,
                             MSG_INVALID_PARAMETERS
                               \o _format_validation_errors(ValidationErrors(raw)),
                             None, <<>>, <<>>, <<>>)
    ELSE generate(base, [BroadbandParams(raw) EXCEPT !.postcode = Val(raw.postcode)])

\* generate(params) for a raw mapping: lines 238-246, then as above.
generate_mapping(base, raw) ==
  IF ValidationErrors(raw) # <<>>
    THEN URLGenerationResult(FALSE,
                             MSG_INVALID_PARAMETERS
                               \o _format_validation_errors(ValidationErrors(raw)),
                             None, <<>>, <<>>, <<>>)
    ELSE generate(base, BroadbandParams(raw))
(* ------------------------------------------------------------------ *)
(* Requests: the inputs the model explores.                            *)
(* ------------------------------------------------------------------ *)
\* Longest run of one whitespace character put into a raw postcode.
MaxRun ==
  2

PostcodeCores ==
  { <<"E","1","4","9","W","B">>,
    <<"m","1"," ","1","a","a">>,
    <<"S","W","1","0","9","P","A">>,
    <<"w","1","A","0","a","X">>,
    <<"I","N","V","A","L","I","D">>,
    <<"E","1","4">>,
    <<>> }

RECURSIVE Run(_, _)
Run(c, n) ==
  IF n = 0 THEN <<>> ELSE <<c>> \o Run(c, n - 1)

\* Every core with one run of spaces or of tabs put at one position: unspaced,
\* spaced, padded, several spaces, a space in another position.
RawPostcodes ==
  UNION { { SubSeq(core, 1, p) \o Run(w, n) \o SubSeq(core, p + 1, Len(core)) :
              p \in 0..Len(core), w \in {" ", "\t"}, n \in 0..MaxRun } :
          core \in PostcodeCores }

RawProviders ==
  { <<"str", <<"B","T",",","S","k","y",","," ","V","o","d","a","f","o","n","e">>>>,
    <<"str", <<"H","y","p","e","r","o","p","t","i","c">>>>,
    <<"str", <<" ",","," ">>>>,
    <<"str", <<"B","T",",","B","T">>>>,
    <<"str", <<"B","&","T","=","1","#","x",","," ","S","k","y","?">>>>,
    <<"list", <<<<"B","T">>, <<"S","k","y">>>> >>,
    <<"list", <<<<" ","B","T"," ">>, <<>>, <<"B","T">>>> >>,
    <<"list", <<<<" "," ">>>> >>,
    <<"list", <<<<"int", 42>>, <<"B","T">>>> >>,
    <<"list", <<>> >> }

BaseUrls ==
  { DEFAULT_BASE_URL,
    <<"/","/","b","r","o","a","d","b","a","n","d",".","j","u","s","t","m","o","v","e","i","n",".","c","o","/","p","a","c","k","a","g","e","s">>,
    <<"f","t","p",":","/","/","b","r","o","a","d","b","a","n","d",".","j","u","s","t","m","o","v","e","i","n",".","c","o","/","p","a","c","k","a","g","e","s">>,
    <<>> }

ScenarioKeys ==
  Range(FieldNames) \cup {"base_url"}

\* The raw values tried for each key one at a time: every declared literal of
\* an enum, strings outside it, and the key left out.
Dom(k) ==
  CASE k = "base_url" -> BaseUrls
    [] k = "postcode" -> {None} \cup { Some(p) : p \in RawPostcodes }
    [] k = "speedInMb" ->
         {None} \cup { Some(v) : v \in Range(VALID_SPEEDS) \cup {<<"2","0","0","M","b">>, <<"1","0","0","m","b">>, <<>>} }
    [] k = "contractLength" ->
         {None} \cup { Some(v) : v \in Range(VALID_CONTRACT_LENGTHS) \cup {<<"3","6"," ","m","o","n","t","h","s">>} }
    [] k = "phoneCalls" ->
         {None} \cup { Some(v) : v \in Range(VALID_PHONE_CALLS) \cup {<<"a","n","y","t","i","m","e">>} }
    [] k = "productType" ->
         {None} \cup { Some(v) : v \in Range(VALID_PRODUCT_TYPES) \cup {<<"t","v">>} }
    [] k = "sortBy" ->
         {None} \cup { Some(v) : v \in Range(VALID_SORT_BY) \cup {<<"P","r","i","c","e">>} }
    [] k = "providers" -> {None} \cup { Some(v) : v \in RawProviders }
    [] k = "currentProvider" -> { None, Some(<<"V","i","r","g","i","n"," ","M","e","d","i","a">>), Some(<<>>),
                                   Some(<<"A","&","b","=","c","?","#","d"," ","e">>) }
    [] k = "newLine" -> { None, Some(TRUE), Some(FALSE) }
    [] k = "addressId" -> { None, Some(<<"A","1">>) }
    [] k = "matryoshkaSpeed" -> { None, Some(<<"F","i","b","r","e">>), Some(<<>>) }
    [] k = "openProduct" -> { None, Some(<<"p","1">>) }
    [] k = "tab" -> { None, Some(<<"t","v">>), Some(<<>>) }
    [] k = "tvChannels" -> { None, Some(<<"c","4">>) }

\* The raw values tried for each key together with a change of another key.
SmallDom(k) ==
  CASE k = "base_url" -> BaseUrls
    [] k = "postcode" -> { Some(<<" ">>), Some(<<"I","N","V","A","L","I","D">>), Some(<<"s","w","1","0","9","p","a">>), Some(<<"E","1","4"," "," ","9","W","B">>) }
    [] k = "speedInMb" -> { None, Some(<<"1","0","M","b">>), Some(<<"2","0","0","M","b">>) }
    [] k = "contractLength" -> { None, Some(<<"2","4"," ","m","o","n","t","h","s">>), Some(<<"3","6"," ","m","o","n","t","h","s">>) }
    [] k = "phoneCalls" -> { None, Some(<<"A","n","y","t","i","m","e">>), Some(<<"a","n","y","t","i","m","e">>) }
    [] k = "productType" -> { None, Some(<<"b","r","o","a","d","b","a","n","d">>), Some(<<"b","r","o","a","d","b","a","n","d",",","p","h","o","n","e",",","t","v">>), Some(<<"t","v">>) }
    [] k = "sortBy" -> { None, Some(<<"R","e","c","o","m","m","e","n","d","e","d">>), Some(<<"S","p","e","e","d">>), Some(<<"P","r","i","c","e">>) }
    [] k = "providers" -> { None, Some(<<"str", <<"B","T",",","S","k","y",","," ","V","o","d","a","f","o","n","e">>>>), Some(<<"list", <<<<" ">>>> >>) }
    [] k = "currentProvider" -> { None, Some(<<"S","k","y">>) }
    [] k = "newLine" -> { None, Some(TRUE), Some(FALSE) }
    [] k = "addressId" -> { None, Some(<<"A","1">>) }
    [] k = "matryoshkaSpeed" -> { None, Some(<<>>) }
    [] k = "openProduct" -> { None, Some(<<"p","1">>) }
    [] k = "tab" -> { None, Some(<<>>) }
    [] k = "tvChannels" -> { None, Some(<<"c","4">>) }

\* The request of test_basic_url on the default generator.
BasicScenario ==
  [k \in ScenarioKeys |->
     IF k = "base_url" THEN DEFAULT_BASE_URL
     ELSE IF k = "postcode" THEN Some(<<"E","1","4"," ","9","W","B">>)
     ELSE None]

\* The request of test_full_url, with every other field given as well.
FullScenario ==
  [base_url |-> DEFAULT_BASE_URL,
   postcode |-> Some(<<"E","1","4"," ","9","W","B">>),
   speedInMb |-> Some(<<"1","0","0","M","b">>),
   contractLength |-> Some(<<"1","2"," ","m","o","n","t","h","s">>),
   phoneCalls |-> Some(<<"E","v","e","n","i","n","g"," ","a","n","d"," ","W","e","e","k","e","n","d">>),
   productType |-> Some(<<"b","r","o","a","d","b","a","n","d",",","p","h","o","n","e">>),
   providers |-> Some(<<"str", <<"H","y","p","e","r","o","p","t","i","c">>>>),
   currentProvider |-> Some(<<"V","i","r","g","i","n"," ","M","e","d","i","a">>),
   newLine |-> Some(TRUE),
   sortBy |-> Some(<<"A","v","g","."," ","M","o","n","t","h","l","y"," ","C","o","s","t">>),
   addressId |-> Some(<<"A","1">>),
   matryoshkaSpeed |-> Some(<<"F","i","b","r","e">>),
   openProduct |-> Some(<<"p","1">>),
   tab |-> Some(<<"t","v">>),
   tvChannels |-> Some(<<"c","4">>)]

\* A request with every enum field out of its domain and no postcode.
BadScenario ==
  [BasicScenario EXCEPT !.postcode = Some(<<>>), !.speedInMb = Some(<<"2","0","0","M","b">>),
                        !.contractLength = Some(<<"3","6"," ","m","o","n","t","h","s">>), !.phoneCalls = Some(<<"a","n","y","t","i","m","e">>),
                        !.productType = Some(<<"t","v">>), !.sortBy = Some(<<"P","r","i","c","e">>)]

\* Requests with exactly three and exactly four invalid fields.
ThreeBadScenario ==
  [BasicScenario EXCEPT !.speedInMb = Some(<<"2","0","0","M","b">>),
                        !.productType = Some(<<"t","v">>), !.sortBy = Some(<<"P","r","i","c","e">>)]

FourBadScenario ==
  [ThreeBadScenario EXCEPT !.postcode = Some(<<"I","N","V","A","L","I","D">>)]

\* The basic and the full request, each with one key changed to any value
\* tried for it, or with two keys changed to the values tried together.
Scenarios ==
  {BadScenario, ThreeBadScenario, FourBadScenario} \cup
  UNION { UNION { { [s EXCEPT ![f] = v] : v \in Dom(f) } : f \in ScenarioKeys } \cup
          UNION { { [[s EXCEPT ![f] = v] EXCEPT ![g] = w] :
                      v \in SmallDom(f), w \in SmallDom(g) } :
                  f \in ScenarioKeys, g \in ScenarioKeys } :
          s \in {BasicScenario, FullScenario} }

(* ------------------------------------------------------------------ *)
(* The state machine: a caller, its request and a generator.           *)
(* ------------------------------------------------------------------ *)
\* base_url: the generator's injected base URL (self.base_url).
\* raw:      the caller's raw key-value mapping.
\* params:   the BroadbandParams instance built from raw, once constructed.
\* errors:   the errors of the ValidationError raised by the construction.
\* result:   the URLGenerationResult returned by generate, once returned.
\* pc:       "request", then "constructed" or "rejected", then "returned", or
\*           "raised" when a call of generate ended in an exception.
\* assigned: the enum fields of the instance that hold a plain string put
\*           there by an attribute assignment after construction.
\* calls:    the number of calls of generate made so far.
\* earlier:  one earlier call the caller has kept: its generator's base URL, the
\*           instance state passed, its outcome, and what was called since.
VARIABLES base_url, raw, params, errors, result, pc, assigned, calls, earlier

\* The collaborators of the generator.
\* threads:         the calls of generate in progress on one shared generator,
\*                  one per concurrent caller, each with its own local values.
\* legacy:          the pair returned by generate_broadband_url, once returned.
\* _agent_instance: the module-level agent singleton of agent.py.
\* built:           the number of agent instances built so far.
\* agent:           the agent the last call of get_agent returned.
\* log_file:        the records appended to the interaction log file.
\* tool_return:     what the last call of the generate_url tool returned.
\* messages:        the in-memory message list of the CLI loop.
\* history:         the contents of the CLI history file (None: no file).
\* auto_open:       the auto-open flag of the CLI loop.
\* cli_pc:          where the CLI loop is: "off", "prompt", "display", "save"
\*                  or "exited".
VARIABLES threads, legacy, _agent_instance, built, agent, log_file, tool_return,
          messages, history, auto_open, cli_pc

generatorVars ==
  <<base_url, raw, params, errors, result, pc, assigned, calls, earlier>>

threadVars ==
  <<threads>>

legacyVars ==
  <<legacy>>

agentVars ==
  <<_agent_instance, built, agent, log_file, tool_return>>

cliVars ==
  <<messages, history, auto_open, cli_pc>>

vars ==
  <<generatorVars, threadVars, legacyVars, agentVars, cliVars>>

\* The most concurrent callers of one generator.
MaxCallers ==
  2

Callers ==
  1..MaxCallers

\* No call of generate is in progress.
ThreadsIdle ==
  threads = [c \in Callers |-> [pc |-> "idle", params |-> None, url |-> None, result |-> None]]

\* generate_broadband_url has not been called.
LegacyIdle ==
  legacy = None

\* agent.py as imported: no agent instance, nothing logged.
AgentIdle ==
  /\ _agent_instance = None
  /\ built = 0
  /\ agent = None
  /\ log_file = <<>>
  /\ tool_return = None

\* The CLI is not running.
CliIdle ==
  /\ messages = <<>>
  /\ history = None
  /\ auto_open = FALSE
  /\ cli_pc = "off"

RawOf(s) ==
  [k \in Range(FieldNames) |-> s[k]]

\* URLGenerator(base_url) holds the injected base URL; the caller holds a raw
\* mapping; nothing is constructed or generated yet.
Init ==
  \E s \in Scenarios :
    /\ base_url = s.base_url
    /\ raw = RawOf(s)
    /\ params = None
    /\ errors = <<>>
    /\ result = None
    /\ pc = "request"
    /\ assigned = {}
    /\ calls = 0
    /\ earlier = None
    /\ ThreadsIdle /\ LegacyIdle /\ AgentIdle /\ CliIdle

\* BroadbandParams(**raw): the instance, or the ValidationError raised.
Construct ==
  /\ pc = "request"
  /\ errors' = ValidationErrors(raw)
  /\ params' = IF ValidationErrors(raw) = <<>> THEN Some(BroadbandParams(raw)) ELSE None
  /\ pc' = IF ValidationErrors(raw) = <<>> THEN "constructed" ELSE "rejected"
  /\ UNCHANGED <<base_url, raw, result, assigned, calls, earlier>>
  /\ UNCHANGED <<threadVars, legacyVars, agentVars, cliVars>>

\* generator.generate(params) with the constructed instance.
GenerateParams ==
  /\ pc = "constructed"
  /\ result' = Some(generate(base_url, Val(params)))
  /\ pc' = "returned"
  /\ calls' = calls + 1
  /\ UNCHANGED <<base_url, raw, params, errors, assigned, earlier>>
  /\ UNCHANGED <<threadVars, legacyVars, agentVars, cliVars>>

\* generator.generate(raw) with the raw mapping itself.
GenerateMapping ==
  /\ pc = "request"
  /\ result' = Some(generate_mapping(base_url, raw))
  /\ pc' = "returned"
  /\ calls' = calls + 1
  /\ UNCHANGED <<base_url, raw, params, errors, assigned, earlier>>
  /\ UNCHANGED <<threadVars, legacyVars, agentVars, cliVars>>

Next ==
  \/ Construct
  \/ GenerateParams
  \/ GenerateMapping

Spec ==
  Init /\ [][Next]_vars

(* ------------------------------------------------------------------ *)
(* A session: the caller keeps its instance and its generator, assigns *)
(* to fields of the instance, builds other generators and calls        *)
(* generate several times.                                             *)
(* ------------------------------------------------------------------ *)
\* The most calls of generate in one session.
MaxCalls ==
  3

\* str has no attribute value: the text of the AttributeError.
MSG_ATTRIBUTE_ERROR ==
  <<"'","s","t","r","'"," ","o","b","j","e","c","t"," ","h","a","s"," ","n","o"," ","a","t","t","r","i","b","u","t","e"," ","'","v","a","l","u","e","'">>

\* Mutant: the generator gives its suggestions on its first call only.
generate_instance_Remembers(base, p, plain) ==
  IF \E f \in EnumFields : f \in plain /\ p[f] # None /\ Val(p[f]) # <<>>
    THEN Raise(MSG_ATTRIBUTE_ERROR)
    ELSE Return(IF calls = 0 THEN generate(base, p)
                ELSE [generate(base, p) EXCEPT !.suggestions = <<>>])

\* generate(params) for an instance whose enum fields named in plain hold a
\* plain string: lines 252-265 read .value of every enum field that is truthy,
\* which a plain string does not have; nothing in generate catches that.
generate_instance(base, p, plain) ==
  IF \E f \in EnumFields : f \in plain /\ p[f] # None /\ Val(p[f]) # <<>>
    THEN Raise(MSG_ATTRIBUTE_ERROR)
    ELSE Return(generate(base, p))

SessionBases ==
  { DEFAULT_BASE_URL,
    <<"f","t","p",":","/","/","b","r","o","a","d","b","a","n","d",".","j","u","s","t","m","o","v","e","i","n",".","c","o","/","p","a","c","k","a","g","e","s">> }

\* The basic and the full request, a request naming a provider twice and a
\* request that does not validate, each on the default generator.
SessionScenarios ==
  { BasicScenario, FullScenario,
    [BasicScenario EXCEPT !.providers = Some(<<"str", <<"B","T",",","B","T">>>>)],
    [BasicScenario EXCEPT !.speedInMb = Some(<<"2","0","0","M","b">>)] }

\* The values a caller assigns to a field of its instance: plain strings (or
\* None), stored as they are because the model does not validate assignments.
AssignValues(f) ==
  CASE f = "postcode" -> { <<"E","1","4"," ","9","W","B">>, <<"M","1"," ","1","A","A">> }
    [] f = "speedInMb" -> { None, Some(<<"1","0","0","M","b">>) }

SessionInit ==
  \E s \in SessionScenarios :
    /\ base_url = s.base_url
    /\ raw = RawOf(s)
    /\ params = None
    /\ errors = <<>>
    /\ result = None
    /\ pc = "request"
    /\ assigned = {}
    /\ calls = 0
    /\ earlier = None
    /\ ThreadsIdle /\ LegacyIdle /\ AgentIdle /\ CliIdle

\* params.<field> = value
Assign ==
  /\ params # None
  /\ \E f \in {"postcode", "speedInMb"} : \E v \in AssignValues(f) :
       /\ params' = Some([Val(params) EXCEPT ![f] = v])
       /\ assigned' = IF f \notin EnumFields THEN assigned
                      ELSE IF v = None THEN assigned \ {f}
                      ELSE assigned \cup {f}
  /\ UNCHANGED <<base_url, raw, errors, result, pc, calls, earlier>>
  /\ UNCHANGED <<threadVars, legacyVars, agentVars, cliVars>>

\* generator = URLGenerator(base_url): the caller goes on with another generator.
NewGenerator ==
  /\ pc # "request"
  /\ \E b \in SessionBases : base_url' = b
  /\ UNCHANGED <<raw, params, errors, result, pc, assigned, calls, earlier>>
  /\ UNCHANGED <<threadVars, legacyVars, agentVars, cliVars>>

\* The record the caller keeps of a call.
KeptCall(base, p, plain, outcome) ==
  [base_url |-> base, params |-> p, assigned |-> plain, outcome |-> outcome,
   phase |-> "kept"]

SameCall(kept, base, p, plain) ==
  kept.base_url = base /\ kept.params = p /\ kept.assigned = plain

\* What the kept call records of a later call: a call with another input
\* after it, then a call with its own input again.
Later(kept, base, p, plain) ==
  IF kept.phase = "kept" /\ ~SameCall(kept, base, p, plain)
    THEN [kept EXCEPT !.phase = "between"]
  ELSE IF kept.phase = "between" /\ SameCall(kept, base, p, plain)
    THEN [kept EXCEPT !.phase = "repeated"]
  ELSE kept

\* Mutant: generate writes the defaults it applies back into the instance.
CallGenerate_WritesDefaults ==
  /\ params # None
  /\ calls < MaxCalls
  /\ LET outcome == generate_instance(base_url, Val(params), assigned)
     IN  /\ result' = IF outcome.ok THEN Some(outcome.value) ELSE None
         /\ pc' = IF outcome.ok THEN "returned" ELSE "raised"
         /\ IF earlier = None
              THEN \/ earlier' = None
                   \/ earlier' = Some(KeptCall(base_url, Val(params), assigned, outcome))
              ELSE earlier' = Some(Later(Val(earlier), base_url, Val(params), assigned))
  /\ calls' = calls + 1
  /\ params' = Some([Val(params) EXCEPT !.productType = Some(<<"b","r","o","a","d","b","a","n","d">>)])
  /\ UNCHANGED <<base_url, raw, errors, assigned>>
  /\ UNCHANGED <<threadVars, legacyVars, agentVars, cliVars>>

\* generator.generate(params) with the instance as it is now.
CallGenerate ==
  /\ params # None
  /\ calls < MaxCalls
  /\ LET outcome == generate_instance(base_url, Val(params), assigned)
     IN  /\ result' = IF outcome.ok THEN Some(outcome.value) ELSE None
         /\ pc' = IF outcome.ok THEN "returned" ELSE "raised"
         /\ IF earlier = None
              THEN \/ earlier' = None
                   \/ earlier' = Some(KeptCall(base_url, Val(params), assigned, outcome))
              ELSE earlier' = Some(Later(Val(earlier), base_url, Val(params), assigned))
  /\ calls' = calls + 1
  /\ UNCHANGED <<base_url, raw, params, errors, assigned>>
  /\ UNCHANGED <<threadVars, legacyVars, agentVars, cliVars>>

\* generator.generate(raw) with the raw mapping.
CallGenerateMapping ==
  /\ pc # "rejected"
  /\ calls < MaxCalls
  /\ result' = Some(generate_mapping(base_url, raw))
  /\ pc' = "returned"
  /\ calls' = calls + 1
  /\ earlier' = IF earlier # None /\ Val(earlier).phase = "kept"
                  THEN Some([Val(earlier) EXCEPT !.phase = "between"])
                  ELSE earlier
  /\ UNCHANGED <<base_url, raw, params, errors, assigned>>
  /\ UNCHANGED <<threadVars, legacyVars, agentVars, cliVars>>

SessionNext ==
  \/ Construct
  \/ Assign
  \/ NewGenerator
  \/ CallGenerate
  \/ CallGenerateMapping

SessionSpec ==
  SessionInit /\ [][SessionNext]_vars

(* ------------------------------------------------------------------ *)
(* Reading a URL and a request, for the properties below.              *)
(* ------------------------------------------------------------------ *)
BeforeFirst(s, c) ==
  SubSeq(s, 1, FirstOf(s, {c}) - 1)

AfterFirst(s, c) ==
  SubSeq(s, FirstOf(s, {c}) + 1, Len(s))

RECURSIVE SplitOn(_, _)
SplitOn(s, c) ==
  IF ~Contains(s, c) THEN <<s>>
  ELSE <<BeforeFirst(s, c)>> \o SplitOn(AfterFirst(s, c), c)

\* The primary query string: between the first ? and the first #.
UrlQuery(url) ==
  AfterFirst(BeforeFirst(url, "#"), "?")

\* The fragment: everything after the first #.
UrlFragment(url) ==
  AfterFirst(url, "#")

RECURSIVE KeyValuePairs(_)
KeyValuePairs(entries) ==
  IF entries = <<>> THEN <<>>
  ELSE <<(<<BeforeFirst(Head(entries), "=")>> \o <<AfterFirst(Head(entries), "=")>>)>>
         \o KeyValuePairs(Tail(entries))

\* The key=value entries of the query string carried inside the fragment.
FragmentEntries(url) ==
  IF ~Contains(UrlFragment(url), "?") THEN <<>>
  ELSE KeyValuePairs(SplitOn(AfterFirst(UrlFragment(url), "?"), "&"))

\* The fixed order of the fragment keys.
FRAGMENT_KEY_ORDER ==
  << <<"a","d","d","r","e","s","s","I","d">>,
     <<"c","o","n","t","r","a","c","t","L","e","n","g","t","h">>,
     <<"c","u","r","r","e","n","t","P","r","o","v","i","d","e","r">>,
     <<"m","a","t","r","y","o","s","h","k","a","S","p","e","e","d">>,
     <<"n","e","w","L","i","n","e">>,
     <<"o","p","e","n","P","r","o","d","u","c","t">>,
     <<"p","h","o","n","e","C","a","l","l","s">>,
     <<"p","r","o","d","u","c","t","T","y","p","e">>,
     <<"p","r","o","v","i","d","e","r","s">>,
     <<"s","o","r","t","B","y">>,
     <<"s","p","e","e","d","I","n","M","b">>,
     <<"t","a","b">>,
     <<"t","v","C","h","a","n","n","e","l","s">> >>

Returned ==
  pc = "returned"

Succeeded ==
  pc = "returned" /\ Val(result).success

ResultUrl ==
  Val(Val(result).url)

RequestValid ==
  ValidationErrors(raw) = <<>>

\* The parameter set of the request (defined when the request validates).
RequestParams ==
  BroadbandParams(raw)

HasSchemeHttp(base) ==
  StartsWith(base, <<"h","t","t","p",":","/","/">>) \/ StartsWith(base, <<"h","t","t","p","s",":","/","/">>)

(* ------------------------------------------------------------------ *)
(* C1: the URL shape.                                                  *)
(* ------------------------------------------------------------------ *)
\* key=percent-encoded-value for every item, joined by &
RECURSIVE WrittenEntries(_)
WrittenEntries(items) ==
  IF items = <<>> THEN <<>>
  ELSE IF Len(items) = 1 THEN KeyChars(items[1][1]) \o <<"=">> \o quote(items[1][2])
  ELSE KeyChars(items[1][1]) \o <<"=">> \o quote(items[1][2]) \o <<"&">>
         \o WrittenEntries(Tail(items))

\* base + "?location=" + encoded postcode token + "#/" + "?" + entries
ShapeOnBase(base) ==
  base \o <<"?","l","o","c","a","t","i","o","n","=">>
    \o quote(Replace(RequestParams.postcode, " ", <<"+">>))
    \o <<"#","/">> \o <<"?">>
    \o WrittenEntries(RemoveEmpty(fragment_params(RequestParams)))

KeyPosition(key) ==
  IF key \in Range(FRAGMENT_KEY_ORDER)
    THEN CHOOSE k \in 1..Len(FRAGMENT_KEY_ORDER) : FRAGMENT_KEY_ORDER[k] = key
    ELSE 0

\* C2: in every URL produced by generate the fragment keys that are present
\* appear in the fixed order, each at most once, and no key is emitted with an
\* empty value (the URL never contains "key=" with nothing after it).
C2_KeyOrderNoEmpty ==
  Succeeded =>
    LET url == ResultUrl
        es == FragmentEntries(url)
    IN  /\ \A i \in 1..Len(es) : KeyPosition(es[i][1]) > 0 /\ es[i][2] # <<>>
        /\ \A i \in 1..(Len(es) - 1) : KeyPosition(es[i][1]) < KeyPosition(es[i + 1][1])
        /\ ~IsSubstring(<<"=", "&">>, url)
        /\ url[Len(url)] # "="

\* A successful generate of a request with an empty currentProvider among twelve
\* non-empty fields: twelve keys are written, in order.
C2_Witness ==
  /\ Succeeded
  /\ raw.currentProvider = Some(<<>>)
  /\ Len(FragmentEntries(ResultUrl)) = 12

(* ------------------------------------------------------------------ *)
(* C3: literal values and defaults.                                    *)
(* ------------------------------------------------------------------ *)
\* C3: an enum field that is set contributes its literal value; unset,
\* productType contributes "broadband", sortBy "Recommended", matryoshkaSpeed
\* "Broadband" and tab "alldeals" (matryoshkaSpeed and tab also when given
\* empty), and speedInMb, contractLength and phoneCalls contribute nothing;
\* newLine is the token "NewLine" exactly when true; providers is its normalized
\* entries joined by commas.
C3_ValuesAndDefaults ==
  Succeeded =>
    LET es == FragmentEntries(ResultUrl)
        Has(k) == \E i \in 1..Len(es) : es[i][1] = KeyChars(k)
        Value(k) == es[CHOOSE i \in 1..Len(es) : es[i][1] = KeyChars(k)][2]
        Is(k, v) == Has(k) /\ Value(k) = quote(v)
        providers == coerce_providers(raw.providers)
    IN  /\ \A k \in {"speedInMb", "contractLength", "phoneCalls"} :
             IF raw[k] # None THEN Is(k, Val(raw[k])) ELSE ~Has(k)
        /\ Is("productType", IF raw.productType # None THEN Val(raw.productType)
                             ELSE <<"b","r","o","a","d","b","a","n","d">>)
        /\ Is("sortBy", IF raw.sortBy # None THEN Val(raw.sortBy) ELSE <<"R","e","c","o","m","m","e","n","d","e","d">>)
        /\ Is("matryoshkaSpeed",
              IF raw.matryoshkaSpeed # None /\ Val(raw.matryoshkaSpeed) # <<>>
                THEN Val(raw.matryoshkaSpeed) ELSE <<"B","r","o","a","d","b","a","n","d">>)
        /\ Is("tab", IF raw.tab # None /\ Val(raw.tab) # <<>> THEN Val(raw.tab)
                     ELSE <<"a","l","l","d","e","a","l","s">>)
        /\ IF raw.newLine = Some(TRUE) THEN Is("newLine", <<"N","e","w","L","i","n","e">>) ELSE ~Has("newLine")
        /\ IF providers # None /\ Val(providers) # <<>>
             THEN Is("providers", Join(Val(providers), <<",">>))
             ELSE ~Has("providers")

\* A successful generate with newLine false, providers "BT,Sky, Vodafone" and
\* no productType: no newLine key, the joined list and the default are written.
C3_Witness ==
  /\ Succeeded
  /\ raw.newLine = Some(FALSE)
  /\ raw.productType = None
  /\ IsSubstring(<<"p","r","o","d","u","c","t","T","y","p","e","=","b","r","o","a","d","b","a","n","d","&","p","r","o","v","i","d","e","r","s","=","B","T","%","2","C","S","k","y","%","2","C","V","o","d","a","f","o","n","e","&">>, ResultUrl)

(* ------------------------------------------------------------------ *)
(* C4 - C7: the postcode.                                              *)
(* ------------------------------------------------------------------ *)
PostcodeRejected ==
  \E i \in 1..Len(errors) : errors[i].loc = "postcode"

Constructing ==
  pc \in {"constructed", "rejected"}

\* C4: for every raw postcode for which construction succeeds, the stored
\* postcode is non-empty, uppercase, and contains exactly one space, located
\* immediately before its final three characters.
C4_StoredPostcodeSingleSpace ==
  pc = "constructed" =>
    LET p == Val(params).postcode
    IN  /\ p # <<>>
        /\ \A i \in 1..Len(p) : p[i] \notin Range(LowerLetters)
        /\ Cardinality({i \in 1..Len(p) : p[i] = " "}) = 1
        /\ Len(p) > 3 /\ p[Len(p) - 3] = " "

\* The permissive format, unspaced or with the one space before the final three
\* characters, in any letter case.
C5_Permissive(s) ==
  \E a \in 1..2, b \in 0..1, sp \in 0..1 :
    /\ Len(s) = a + 1 + b + sp + 3
    /\ \A i \in 1..a : IsLetter(s[i])
    /\ IsDigit(s[a + 1])
    /\ \A i \in (a + 2)..(a + 1 + b) : IsLetter(s[i]) \/ IsDigit(s[i])
    /\ sp = 1 => s[a + b + 2] = " "
    /\ IsDigit(s[a + b + sp + 2])
    /\ IsLetter(s[a + b + sp + 3])
    /\ IsLetter(s[a + b + sp + 4])

\* C5: for every postcode of the permissive format, spaced or unspaced and in
\* any letter case, normalization followed by format validation succeeds, and
\* the URL-safe token is the uppercase postcode with '+' in the place of the
\* single space before the final three characters: exactly one '+'.
C5_PostcodeToken ==
  (raw.postcode # None /\ C5_Permissive(Val(raw.postcode))) =>
    LET joined == StrUpper(Replace(Val(raw.postcode), " ", <<>>))
        expected == SubSeq(joined, 1, Len(joined) - 3) \o <<"+">>
                      \o SubSeq(joined, Len(joined) - 2, Len(joined))
    IN  /\ Constructing => ~PostcodeRejected
        /\ pc = "constructed" =>
             /\ postcode_for_url(Val(params)) = expected
             /\ Cardinality({i \in 1..Len(expected) : expected[i] = "+"}) = 1
        /\ Succeeded => UrlQuery(ResultUrl) = <<"l","o","c","a","t","i","o","n","=">> \o quote(expected)

\* The unspaced lower-case postcode sw109pa was accepted and stored.
C5_Witness ==
  /\ pc = "constructed"
  /\ raw.postcode = Some(<<"s","w","1","0","9","p","a">>)
  /\ postcode_for_url(Val(params)) = <<"S","W","1","0","+","9","P","A">>

\* 1-2 letters, 1 digit, optionally 1 more letter or digit, then 1 digit and 2
\* letters, and nothing else.
C6_Pattern(s) ==
  \E a \in 1..2, b \in 0..1 :
    /\ Len(s) = a + 1 + b + 3
    /\ \A i \in 1..a : IsLetter(s[i])
    /\ IsDigit(s[a + 1])
    /\ \A i \in (a + 2)..(a + 1 + b) : IsLetter(s[i]) \/ IsDigit(s[i])
    /\ IsDigit(s[a + b + 2])
    /\ IsLetter(s[a + b + 3])
    /\ IsLetter(s[a + b + 4])

\* C6: format validation accepts a normalized postcode if and only if, after
\* all spaces are removed, it is 1-2 letters, 1 digit, optionally 1 more letter
\* or digit, then 1 digit and 2 letters, and nothing else; for any postcode that
\* is not, generate fails with a message naming an invalid postcode format.
C6_FormatIffPattern ==
  (raw.postcode # None /\ Strip(Val(raw.postcode)) # <<>>) =>
    LET normalized == normalize_postcode_input(Val(raw.postcode)).value
        matches == C6_Pattern(Replace(normalized, " ", <<>>))
    IN  /\ Constructing => (~PostcodeRejected <=> matches)
        /\ (Returned /\ ~matches) =>
             /\ ~Val(result).success
             /\ IsSubstring(<<"I","n","v","a","l","i","d"," ","U","K"," ","p","o","s","t","c","o","d","e"," ","f","o","r","m","a","t">>, Val(result).message)

ValidOptions(field) ==
  CASE field = "speedInMb" -> Range(VALID_SPEEDS)
    [] field = "contractLength" -> Range(VALID_CONTRACT_LENGTHS)
    [] field = "phoneCalls" -> Range(VALID_PHONE_CALLS)
    [] field = "productType" -> Range(VALID_PRODUCT_TYPES)
    [] field = "sortBy" -> Range(VALID_SORT_BY)

OutOfDomain(field) ==
  raw[field] # None /\ Val(raw[field]) \notin ValidOptions(field)

FieldWord(field) ==
  CASE field = "speedInMb" -> <<"p","e","e","d">>
    [] field = "contractLength" -> <<"o","n","t","r","a","c","t">>
    [] field = "phoneCalls" -> <<"h","o","n","e">>
    [] field = "productType" -> <<"r","o","d","u","c","t">>
    [] field = "sortBy" -> <<"o","r","t">>

\* C9: when a raw enum field value is outside its domain, the failure message
\* returned to the caller names the offending value and identifies it as an
\* invalid value of that field.
C9_MessageNamesValue ==
  Returned =>
    \A f \in EnumFields :
      OutOfDomain(f) =>
        /\ IsSubstring(Val(raw[f]), Val(result).message)
        /\ IsSubstring(FieldWord(f), Val(result).message)

C11_NeverRaises ==
  /\ pc # "raised"
  /\ (pc = "returned" /\ Val(result).url = None) =>
       (~Val(result).success /\ Val(result).message # <<>>)

\* The validated fields in their declared order.
ValidatedOrder ==
  <<"postcode", "speedInMb", "contractLength", "phoneCalls", "productType", "sortBy">>

InvalidField(f) ==
  IF f = "postcode" THEN ~PostcodeField(raw.postcode).ok ELSE OutOfDomain(f)

\* The invalid fields of the request, in declared order.
InvalidFields ==
  SelectSeq(ValidatedOrder, InvalidField)

\* C12 as stated: validation accumulates every failure rather than stopping at
\* the first, and for raw input in which n distinct fields are invalid all n
\* problems are reported in the one message the caller gets.
C12_AllReported ==
  /\ Constructing =>
       /\ Len(errors) = Len(InvalidFields)
       /\ \A i \in 1..Len(errors) : errors[i].loc = InvalidFields[i]
  /\ (Returned /\ InvalidFields # <<>>) =>
       LET es == ValidationErrors(raw)
       IN  \A i \in 1..Len(es) : IsSubstring(es[i].msg, Val(result).message)

\* C12, amended: validation accumulates every failure rather than stopping at
\* the first: for raw input in which n distinct fields are invalid the
\* validation error carries all n problems, one per field in declared order,
\* and the message of generate reports the first min(n, 3) of them.
C12_AccumulatedFirstThree ==
  /\ Constructing =>
       /\ Len(errors) = Len(InvalidFields)
       /\ \A i \in 1..Len(errors) : errors[i].loc = InvalidFields[i]
  /\ (Returned /\ InvalidFields # <<>>) =>
       LET es == ValidationErrors(raw)
       IN  \A i \in 1..Len(es) :
             i <= 3 => IsSubstring(es[i].msg, Val(result).message)

\* generate has reported the three problems of a request with three invalid
\* fields.
C12_Witness ==
  /\ Returned
  /\ InvalidFields = <<"speedInMb", "productType", "sortBy">>
  /\ \A f \in {"speedInMb", "productType", "sortBy"} :
       IsSubstring(EnumField(f, raw[f]).msg, Val(result).message)

\* C13: the failure message built from n validation errors contains the texts
\* of the first min(n, 3) errors, in order, separated by "; " (a single error
\* is reported as its text alone), and contains no text of a fourth or later
\* error.
C13_MessageFirstThree ==
  /\ (Returned /\ InvalidFields # <<>>) =>
       LET msgs == ErrorMsgs(ValidationErrors(raw))
           n == Len(msgs)
           message == Val(result).message
           text == SubSeq(message, Len(MSG_INVALID_PARAMETERS) + 1, Len(message))
       IN  /\ StartsWith(message, MSG_INVALID_PARAMETERS)
           /\ n = 1 => text = msgs[1]
           /\ n = 2 => text = msgs[1] \o <<";"," ">> \o msgs[2]
           /\ n >= 3 => text = msgs[1] \o <<";"," ">> \o msgs[2] \o <<";"," ">> \o msgs[3]
           /\ \A i \in 4..n : ~IsSubstring(msgs[i], message)
  /\ (Returned /\ RequestValid /\ ~Val(result).success) =>
       /\ StartsWith(Val(result).message, MSG_FAILED_URL)
       /\ ~IsSubstring(<<";"," ">>, Val(result).message)

\* generate has returned the message for a request with six invalid fields:
\* three texts, the third being the one of the contract length.
C13_Witness ==
  /\ Returned
  /\ Len(InvalidFields) = 6
  /\ IsSubstring(<<";"," ">> \o EnumField("contractLength", raw.contractLength).msg,
                 Val(result).message)
  /\ ~IsSubstring(EnumField("sortBy", raw.sortBy).msg, Val(result).message)

(* ------------------------------------------------------------------ *)
(* C14-C16: what a result tells about the parameters.                  *)
(* ------------------------------------------------------------------ *)
\* The place of an optional field in the order speed, contractLength,
\* phoneCalls, productType, sortBy.
OptionalPlace(f) ==
  CASE f = "speedInMb" -> 1
    [] f = "contractLength" -> 2
    [] f = "phoneCalls" -> 3
    [] f = "productType" -> 4
    [] f = "sortBy" -> 5

\* C14: missingOptionalFields returns exactly the unset fields among speed,
\* contractLength, phoneCalls, productType, sortBy, each once, always in that
\* fixed order; a successful generate with only a postcode reports all five and
\* one with every optional field set reports none.
C14_MissingOptional ==
  Succeeded =>
    LET missing == Val(result).missing_parameters
    IN  /\ \A f \in EnumFields :
             RequestParams[f] = None <=> \E i \in 1..Len(missing) : missing[i] = f
        /\ \A i \in 1..Len(missing) : missing[i] \in EnumFields
        /\ \A i, j \in 1..Len(missing) :
             i < j => OptionalPlace(missing[i]) < OptionalPlace(missing[j])
        /\ (\A k \in Range(FieldNames) : k # "postcode" => raw[k] = None) =>
             missing = <<"speedInMb", "contractLength", "phoneCalls", "productType", "sortBy">>
        /\ (\A f \in EnumFields : raw[f] # None) => missing = <<>>

\* generate has succeeded for a request with only a postcode and reported the
\* five optional fields.
C14_Witness ==
  /\ Succeeded
  /\ \A k \in Range(FieldNames) : k # "postcode" => raw[k] = None
  /\ Len(Val(result).missing_parameters) = 5

\* The four suggestion rules, in their order: when rule k applies to a
\* parameter set, and its text.
RuleApplies(k, p) ==
  CASE k = 1 -> p.speedInMb = None
    [] k = 2 -> p.contractLength = None
    [] k = 3 -> p.providers = None
    [] k = 4 -> p.sortBy = None \/ p.sortBy = Some(<<"R","e","c","o","m","m","e","n","d","e","d">>)

RuleText(k) ==
  CASE k = 1 -> SUGGEST_SPEED
    [] k = 2 -> SUGGEST_CONTRACT
    [] k = 3 -> SUGGEST_PROVIDERS
    [] k = 4 -> SUGGEST_SORT

\* The number of rules up to rule k that apply.
RuleRank(k, p) ==
  Cardinality({h \in 1..k : RuleApplies(h, p)})

\* C15: on every successful generate, suggestions has length at most 3 and
\* equals the first three (or fewer) of the applicable rules taken in the
\* order: speed unset, contractLength unset, providers unset, sortBy unset or
\* equal to "Recommended"; each rule contributes at most one suggestion, so
\* when the first three rules all apply the sort suggestion is not returned.
C15_Suggestions ==
  Succeeded =>
    LET p == RequestParams
        s == Val(result).suggestions
    IN  /\ Len(s) <= 3
        /\ Len(s) = IF RuleRank(4, p) < 3 THEN RuleRank(4, p) ELSE 3
        /\ \A k \in 1..4 :
             (RuleApplies(k, p) /\ RuleRank(k, p) <= 3) => s[RuleRank(k, p)] = RuleText(k)
        /\ (\A k \in 1..3 : RuleApplies(k, p)) =>
             \A i \in 1..Len(s) : s[i] # SUGGEST_SORT

\* generate has succeeded for a request to which all four rules apply, and the
\* sort suggestion was left out.
C15_Witness ==
  /\ Succeeded
  /\ \A k \in 1..4 : RuleApplies(k, RequestParams)
  /\ Val(result).suggestions = <<SUGGEST_SPEED, SUGGEST_CONTRACT, SUGGEST_PROVIDERS>>

\* C16: parametersUsed in a result echoes exactly the ParameterSet fields that
\* were actually set by the caller: a field the caller did not supply (an
\* unset optional, or a display-only field left at its default) never appears
\* in it.
C16_EchoesSuppliedOnly ==
  (Returned /\ RequestValid) =>
    LET used == DOMAIN Val(result).parameters_used
    IN  /\ "postcode" \in used
        /\ \A k \in used : raw[k] # None

(* ------------------------------------------------------------------ *)
(* C17-C19: the providers list.                                        *)
(* ------------------------------------------------------------------ *)
\* t is s without its leading and trailing whitespace.
IsTrimOf(t, s) ==
  \E i \in 1..(Len(s) + 1) : \E j \in 0..Len(s) :
    /\ t = SubSeq(s, i, j)
    /\ \A h \in 1..(i - 1) : IsWhitespace(s[h])
    /\ \A h \in (j + 1)..Len(s) : IsWhitespace(s[h])
    /\ t = <<>> \/ (~IsWhitespace(t[1]) /\ ~IsWhitespace(t[Len(t)]))

\* The pieces of the raw providers value: the parts of a string between its
\* commas, or the elements of a sequence as strings.
RawPieces ==
  IF Val(raw.providers)[1] = "str" THEN SplitOn(Val(raw.providers)[2], ",")
  ELSE [i \in 1..Len(Val(raw.providers)[2]) |-> str(Val(raw.providers)[2][i])]

\* The places of the pieces that hold more than whitespace, in order.
KeptPlaces ==
  SelectSeq([i \in 1..Len(RawPieces) |-> i],
            LAMBDA i : \E h \in 1..Len(RawPieces[i]) : ~IsWhitespace(RawPieces[i][h]))

\* The providers list a constructed ParameterSet holds (none: the empty one).
StoredProviders ==
  IF Val(params).providers = None THEN <<>> ELSE Val(Val(params).providers)

C18_EmptyProvidersUnset ==
  pc = "constructed" =>
    /\ (raw.providers # None /\ KeptPlaces = <<>>) => Val(params).providers = None
    /\ Val(params).providers # Some(<<>>)

\* C19: the normalized providers list of a validated ParameterSet contains no
\* duplicate entries: a provider named more than once in the raw input appears
\* once in the list and once in the providers value of the URL.
C19_NoDuplicateProviders ==
  /\ pc = "constructed" =>
       \A i, j \in 1..Len(StoredProviders) :
         i # j => StoredProviders[i] # StoredProviders[j]
  /\ Succeeded =>
       LET es == FragmentEntries(ResultUrl)
           given == IF RequestParams.providers = None THEN <<>>
                    ELSE Val(RequestParams.providers)
       IN  \A n \in 1..Len(es) :
             es[n][1] = KeyChars("providers") =>
               /\ es[n][2] = quote(Join(given, <<",">>))
               /\ \A i, j \in 1..Len(given) : i # j => given[i] # given[j]

C21_MappingAsConstructed ==
  /\ (Returned /\ RequestValid) => Val(result) = generate(base_url, RequestParams)
  /\ (Returned /\ ~RequestValid) =>
       /\ ~Val(result).success
       /\ Val(result).url = None
       /\ Val(result).message # <<>>

\* generate has returned for a raw mapping whose postcode validation rewrites,
\* without a ParameterSet having been constructed by the caller.
C21_Witness ==
  /\ Succeeded
  /\ params = None
  /\ raw.postcode = Some(<<"m","1"," ","1","a","a">>)
  /\ raw.providers # None
  /\ Val(result) = generate(base_url, RequestParams)

(* ------------------------------------------------------------------ *)
(* Concurrent callers of one generator (url_generator.py 227-311).     *)
(* A call keeps params, url and the result in local variables; the     *)
(* only attribute of the generator it reads is base_url.               *)
(* ------------------------------------------------------------------ *)
\* The instances the concurrent callers pass.
ConcurrentParams ==
  { BroadbandParams(RawOf(s)) :
      s \in { BasicScenario, FullScenario,
              [BasicScenario EXCEPT !.providers = Some(<<"str", <<"B","T",",","B","T">>>>)] } }

ConcurrentInit ==
  /\ base_url \in SessionBases
  /\ raw = RawOf(BasicScenario)
  /\ params = None
  /\ errors = <<>>
  /\ result = None
  /\ pc = "request"
  /\ assigned = {}
  /\ calls = 0
  /\ earlier = None
  /\ ThreadsIdle /\ LegacyIdle /\ AgentIdle /\ CliIdle

\* Mutant: the arguments are kept in one slot of the generator, which the
\* latest caller to enter overwrites.
ComposeFor_SharedSlot(c) ==
  LET d == CHOOSE d \in Callers :
             /\ threads[d].pc # "idle"
             /\ \A e \in Callers : threads[e].pc # "idle" => e <= d
  IN  EnsureScheme(ComposeUrl(base_url, Val(threads[d].params)))

\* Lines 249-284: the URL caller c composes from its own params and base_url.
ComposeFor(c) ==
  EnsureScheme(ComposeUrl(base_url, Val(threads[c].params)))

\* Lines 286-311: the result built from the local url and params.
Complete(url, p) ==
  LET validated_url == HttpUrl(url)
      missing == get_missing_parameters(p)
  IN  IF validated_url.ok
        THEN URLGenerationResult(TRUE, _build_success_message(p),
                                 Some(validated_url.value), model_dump(p), missing,
                                 _generate_suggestions(p, missing))
        ELSE URLGenerationResult(FALSE, MSG_FAILED_URL \o validated_url.msg,
                                 None, model_dump(p), <<>>, <<>>)

\* Caller c calls generate(p).
Enter(c) ==
  /\ threads[c].pc = "idle"
  /\ \E p \in ConcurrentParams :
       threads' = [threads EXCEPT ![c] = [@ EXCEPT !.pc = "compose", !.params = Some(p)]]
  /\ UNCHANGED <<generatorVars, legacyVars, agentVars, cliVars>>

\* Caller c composes its URL.
Compose(c) ==
  /\ threads[c].pc = "compose"
  /\ threads' = [threads EXCEPT ![c] = [@ EXCEPT !.pc = "validate", !.url = Some(ComposeFor(c))]]
  /\ UNCHANGED <<generatorVars, legacyVars, agentVars, cliVars>>

\* Caller c validates its URL and returns.
Validate(c) ==
  /\ threads[c].pc = "validate"
  /\ threads' = [threads EXCEPT ![c] =
                   [@ EXCEPT !.pc = "done",
                             !.result = Some(Complete(Val(threads[c].url),
                                                    Val(threads[c].params)))]]
  /\ UNCHANGED <<generatorVars, legacyVars, agentVars, cliVars>>

ConcurrentNext ==
  \E c \in Callers : Enter(c) \/ Compose(c) \/ Validate(c)

ConcurrentSpec ==
  ConcurrentInit /\ [][ConcurrentNext]_vars

(* ------------------------------------------------------------------ *)
(* C22: concurrent calls need no locking.                              *)
(* ------------------------------------------------------------------ *)
\* C22: under every interleaving of the callers of one generator, a call that
\* has returned holds the result generate gives for its own params when run
\* alone, and no step writes what another call reads: the base URL and the
\* params of a call in progress stay as they are, and a step changes the local
\* values of one caller only.
C22_NoLockingNeeded ==
  [][/\ \A c \in Callers :
          threads'[c].pc = "done" =>
            threads'[c].result = Some(generate(base_url, Val(threads'[c].params)))
     /\ base_url' = base_url
     /\ \A c \in Callers :
          threads[c].pc # "idle" => threads'[c].params = threads[c].params
     /\ \A c, d \in Callers :
          (c # d /\ threads'[c] # threads[c]) => threads'[d] = threads[d]]_vars

\* Two calls with different params overlapped, and both have returned.
C22_Witness ==
  /\ \A c \in Callers : threads[c].pc = "done"
  /\ threads[1].params # threads[2].params
  /\ Val(threads[1].result).url # Val(threads[2].result).url
  /\ Val(threads[1].result).success

(* ------------------------------------------------------------------ *)
(* C23: generate leaves its inputs as they are.                        *)
(* ------------------------------------------------------------------ *)
\* C23: a call of generate changes neither the ParameterSet or mapping passed
\* to it nor the base URL of the generator: across every call the instance,
\* the record of its assigned fields, the raw mapping and the base URL are what
\* they were before the call.
C23_InputsUnchanged ==
  [][calls' # calls =>
       /\ params' = params
       /\ assigned' = assigned
       /\ raw' = raw
       /\ base_url' = base_url]_vars

\* The instance has been through every call the session makes and still is
\* what validation stored, on the generator constructed first.
C23_Witness ==
  /\ calls = MaxCalls
  /\ pc = "returned"
  /\ params = Some(BroadbandParams(raw))
  /\ Val(params).productType = None
  /\ base_url = DEFAULT_BASE_URL
  /\ Val(result).success

(* ------------------------------------------------------------------ *)
(* The legacy function (url_generator.py 375-391).                     *)
(* ------------------------------------------------------------------ *)
\* generate_broadband_url(params) for an instance: a generator on the default
\* base URL, then (str(url), None) or ("", message); what generate raises
\* passes through, because the function has no try block.
generate_broadband_url(p, plain) ==
  LET outcome == generate_instance(DEFAULT_BASE_URL, p, plain)
  IN  IF ~outcome.ok THEN outcome
      ELSE IF outcome.value.success /\ outcome.value.url # None
             /\ Val(outcome.value.url) # <<>>
        THEN Return(<<Val(outcome.value.url), None>>)
        ELSE Return(<<<<>>, Some(outcome.value.message)>>)

\* generate_broadband_url(raw) for a raw mapping.
generate_broadband_url_mapping(m) ==
  LET res == generate_mapping(DEFAULT_BASE_URL, m)
  IN  IF res.success /\ res.url # None /\ Val(res.url) # <<>>
        THEN Return(<<Val(res.url), None>>)
        ELSE Return(<<<<>>, Some(res.message)>>)

\* The requests of the legacy tests (the basic one, one naming the current
\* provider, the invalid one with an empty postcode and speed 200Mb) and the
\* requests of the sessions and of the validation tests.
LegacyScenarios ==
  SessionScenarios
    \cup { [BasicScenario EXCEPT !.currentProvider =
                                  Some(<<"V","i","r","g","i","n"," ","M","e","d","i","a">>)],
           [BasicScenario EXCEPT !.postcode = Some(<<>>),
                                 !.speedInMb = Some(<<"2","0","0","M","b">>)],
           [FullScenario EXCEPT !.currentProvider =
                                  Some(<<"V","i","r","g","i","n"," ","M","e","d","i","a">>)],
           [BasicScenario EXCEPT !.newLine = Some(TRUE)],
           BadScenario, ThreeBadScenario, FourBadScenario }

LegacyInit ==
  \E s \in LegacyScenarios :
    /\ base_url = DEFAULT_BASE_URL
    /\ raw = RawOf(s)
    /\ params = None
    /\ errors = <<>>
    /\ result = None
    /\ pc = "request"
    /\ assigned = {}
    /\ calls = 0
    /\ earlier = None
    /\ ThreadsIdle /\ LegacyIdle /\ AgentIdle /\ CliIdle

\* url, error = generate_broadband_url(params)
CallLegacy ==
  /\ params # None
  /\ legacy' = Some(generate_broadband_url(Val(params), assigned))
  /\ UNCHANGED <<generatorVars, threadVars, agentVars, cliVars>>

\* url, error = generate_broadband_url(raw)
CallLegacyMapping ==
  /\ legacy' = Some(generate_broadband_url_mapping(raw))
  /\ UNCHANGED <<generatorVars, threadVars, agentVars, cliVars>>

LegacyNext ==
  \/ Construct
  \/ Assign
  \/ CallLegacy
  \/ CallLegacyMapping

LegacySpec ==
  LegacyInit /\ [][LegacyNext]_vars

(* ------------------------------------------------------------------ *)
(* C24: the pair the legacy function returns.                          *)
(* ------------------------------------------------------------------ *)
\* C24: every call of generate_broadband_url returns a pair, never raises, and
\* exactly one component of the pair is meaningful: a non-empty URL with no
\* error, or an empty string with a non-empty error message.
C24_LegacyPair ==
  legacy # None =>
    /\ Val(legacy).ok
    /\ \/ Val(legacy).value[1] # <<>> /\ Val(legacy).value[2] = None
       \/ /\ Val(legacy).value[1] = <<>>
          /\ Val(legacy).value[2] # None
          /\ Val(Val(legacy).value[2]) # <<>>

(* ------------------------------------------------------------------ *)
(* The agent singleton and the generate_url tool (agent.py 65-218),    *)
(* with the interaction logger of observability.py.                    *)
(* ------------------------------------------------------------------ *)
\* The most agent instances built.
MaxAgents ==
  2

\* The most records in the interaction log.
MaxLogged ==
  2

\* config.py lines 100-126: the dependencies built from the default
\* configuration (their model name and the base URL of their generator).
create_default_dependencies ==
  [model_name |-> "gemini-2.5-flash", base_url |-> DEFAULT_BASE_URL]

\* The dependencies a caller injects: the default ones, and ones with another
\* model name and another base URL.
AgentDeps ==
  { [model_name |-> IF b = DEFAULT_BASE_URL THEN "gemini-2.5-flash" ELSE "test",
     base_url |-> b] : b \in SessionBases }

\* What a caller passes to get_agent: nothing, or dependencies.
DepsArgs ==
  {None} \cup { Some(d) : d \in AgentDeps }

\* Lines 68-182: the n-th agent object, configured with the model of deps.
_create_agent(deps, n) ==
  [id |-> n, model |-> deps.model_name]

\* Mutant: an instance built for another model is rebuilt from the
\* dependencies passed.
get_agent_FollowsDeps(instance, deps, n) ==
  IF instance = None \/ (deps # None /\ Val(deps).model_name # Val(instance).model)
    THEN Some(_create_agent(IF deps = None THEN create_default_dependencies ELSE Val(deps), n))
    ELSE instance

\* Lines 185-204: the value of _agent_instance after get_agent(deps), which is
\* also what the call returns.
get_agent(instance, deps, n) ==
  IF instance = None
    THEN Some(_create_agent(IF deps = None THEN create_default_dependencies ELSE Val(deps), n))
    ELSE instance

\* "An unexpected error occurred: ", agent.py line 118.
MSG_UNEXPECTED_ERROR ==
  <<"A","n"," ","u","n","e","x","p","e","c","t","e","d"," ","e","r","r","o","r"," ","o","c","c","u","r","r","e","d",":"," ">>

\* The instances the tool is handed: a validated one, and one carrying a plain
\* string in an enum field, for which generate raises.
ToolInputs ==
  { [params |-> BroadbandParams(RawOf(BasicScenario)), plain |-> {}],
    [params |-> [BroadbandParams(RawOf(BasicScenario))
                   EXCEPT !.speedInMb = Some(<<"1","0","0","M","b">>)],
     plain |-> {"speedInMb"}] }

\* Mutant: the record is written with log_tool_call's default success flag.
tool_call_record_DefaultSuccess(res) ==
  [type |-> "tool_call", tool_name |-> "generate_url", success |-> TRUE]

\* observability.py lines 136-147: the tool-call record.
tool_call_record(res) ==
  [type |-> "tool_call", tool_name |-> "generate_url", success |-> res.success]

\* observability.py lines 176-182: the error record.
error_record(msg) ==
  [type |-> "error", error_message |-> msg, context |-> "generate_url"]

\* observability.py lines 149-153 and 184-188: the record is appended to the
\* log file; a write that fails is caught in the logger and leaves the file as
\* it was.
append_record(log, record, written) ==
  IF written THEN Append(log, record) ELSE log

\* agent.py lines 99-122: what the tool returns and the record it hands to the
\* logger.
generate_url(deps, input) ==
  LET outcome == generate_instance(deps.base_url, input.params, input.plain)
  IN  IF outcome.ok
        THEN [result |-> outcome.value, record |-> tool_call_record(outcome.value)]
        ELSE [result |-> URLGenerationResult(FALSE, MSG_UNEXPECTED_ERROR \o outcome.msg,
                                             None, model_dump(input.params), <<>>, <<>>),
              record |-> error_record(outcome.msg)]

AgentInit ==
  /\ base_url = DEFAULT_BASE_URL
  /\ raw = RawOf(BasicScenario)
  /\ params = None
  /\ errors = <<>>
  /\ result = None
  /\ pc = "request"
  /\ assigned = {}
  /\ calls = 0
  /\ earlier = None
  /\ ThreadsIdle /\ LegacyIdle /\ AgentIdle /\ CliIdle

\* agent = get_agent(deps)
GetAgentWith(d) ==
  /\ _agent_instance # None \/ built < MaxAgents
  /\ _agent_instance' = get_agent(_agent_instance, d, built + 1)
  /\ built' = IF _agent_instance' = _agent_instance THEN built ELSE built + 1
  /\ agent' = _agent_instance'
  /\ UNCHANGED <<log_file, tool_return>>
  /\ UNCHANGED <<generatorVars, threadVars, legacyVars, cliVars>>

GetAgent ==
  \E d \in DepsArgs : GetAgentWith(d)

\* reset_agent()
ResetAgent ==
  /\ _agent_instance' = None
  /\ UNCHANGED <<built, agent, log_file, tool_return>>
  /\ UNCHANGED <<generatorVars, threadVars, legacyVars, cliVars>>

\* A run of the agent calls generate_url(ctx, params) with the dependencies of
\* the run; the write to the log file succeeds or fails.
ToolCall(d, i, written) ==
  /\ agent # None
  /\ Len(log_file) < MaxLogged
  /\ LET r == generate_url(d, i)
     IN  /\ tool_return' = Some(Return(r.result))
         /\ log_file' = append_record(log_file, r.record, written)
  /\ UNCHANGED <<_agent_instance, built, agent>>
  /\ UNCHANGED <<generatorVars, threadVars, legacyVars, cliVars>>

GenerateUrlTool ==
  \E d \in AgentDeps, i \in ToolInputs, written \in BOOLEAN : ToolCall(d, i, written)

AgentNext ==
  \/ GetAgent
  \/ ResetAgent
  \/ GenerateUrlTool

AgentSpec ==
  AgentInit /\ [][AgentNext]_vars

(* ------------------------------------------------------------------ *)
(* C25: the agent singleton.                                           *)
(* ------------------------------------------------------------------ *)
\* C25: while an agent instance exists, get_agent returns that instance and
\* leaves it in place whatever dependencies it is passed, and only a reset
\* takes it away; with no instance (at the start or after reset_agent),
\* get_agent builds an instance that did not exist before, from the
\* dependencies of that call, and returns it.
C25_AgentSingleton ==
  [][/\ (_agent_instance # None /\ _agent_instance' # _agent_instance)
          => _agent_instance' = None
     /\ \A d \in DepsArgs :
          GetAgentWith(d) =>
            IF _agent_instance # None
              THEN agent' = _agent_instance /\ _agent_instance' = _agent_instance
              ELSE /\ agent' # None
                   /\ agent' = _agent_instance'
                   /\ Val(agent').id \notin 1..built
                   /\ Val(agent').model =
                        (IF d = None THEN create_default_dependencies ELSE Val(d)).model_name]_vars

\* After a reset, get_agent has built a second instance from the dependencies
\* passed then, and a later call with other dependencies has returned it again.
C25_Witness ==
  /\ built = 2
  /\ _agent_instance # None
  /\ agent = _agent_instance
  /\ Val(agent).id = 2
  /\ Val(agent).model = "test"

(* ------------------------------------------------------------------ *)
(* C26: the generate_url tool.                                         *)
(* ------------------------------------------------------------------ *)
\* C26 as stated: the tool returns, and when the generator returned it has
\* written exactly one tool-call record whose success flag is the result's.
C26_ExactlyOneRecord ==
  [][\A d \in AgentDeps, i \in ToolInputs, written \in BOOLEAN :
       (ToolCall(d, i, written) /\ generate_instance(d.base_url, i.params, i.plain).ok) =>
         /\ Val(tool_return').ok
         /\ Len(log_file') = Len(log_file) + 1
         /\ log_file'[Len(log_file')].type = "tool_call"
         /\ log_file'[Len(log_file')].success = Val(tool_return').value.success]_vars

\* C26: the tool never raises.  When the generator returns, the tool returns
\* that result and the log gains one tool-call record with the result's
\* success flag if the write to the log file succeeds, and nothing if it fails.
\* When the generator raises, the tool returns a result with success false, no
\* url and the message "An unexpected error occurred: " followed by the error,
\* and the log gains one error record if the write succeeds, and no tool-call
\* record.
C26_ToolReturnsAndLogs ==
  [][\A d \in AgentDeps, i \in ToolInputs, written \in BOOLEAN :
       ToolCall(d, i, written) =>
         LET outcome == generate_instance(d.base_url, i.params, i.plain)
             new == SubSeq(log_file', Len(log_file) + 1, Len(log_file'))
             res == Val(tool_return').value
         IN  /\ Val(tool_return').ok
             /\ SubSeq(log_file', 1, Len(log_file)) = log_file
             /\ Len(new) = IF written THEN 1 ELSE 0
             /\ outcome.ok =>
                  /\ res = outcome.value
                  /\ written => (new[1].type = "tool_call" /\ new[1].success = res.success)
             /\ ~outcome.ok =>
                  /\ ~res.success
                  /\ res.url = None
                  /\ res.message = MSG_UNEXPECTED_ERROR \o outcome.msg
                  /\ written => new[1].type = "error"]_vars

\* The tool has returned the failure result for a generator that raised, after
\* a call that logged a failed generation, and the error is the last record.
C26_Witness ==
  /\ tool_return # None
  /\ ~Val(tool_return).value.success
  /\ StartsWith(Val(tool_return).value.message, MSG_UNEXPECTED_ERROR)
  /\ Len(log_file) = 2
  /\ log_file[1].type = "tool_call"
  /\ ~log_file[1].success
  /\ log_file[2].type = "error"

(* ------------------------------------------------------------------ *)
(* The CLI loop and its history file (cli_app.py 33-67, 114-221).      *)
(* A message is a record of its kind and content; the history file     *)
(* holds the JSON text written by save_history, or other bytes.        *)
(* ------------------------------------------------------------------ *)
\* The most chat turns in the message list.
MaxTurns ==
  2

\* ModelMessagesTypeAdapter.dump_json(messages): a JSON array with one entry
\* per message.
dump_json(ms) ==
  [format |-> "json", items |-> [i \in 1..Len(ms) |-> <<ms[i].kind, ms[i].content>>]]

\* ModelMessagesTypeAdapter.validate_json(json_bytes): the messages of a JSON
\* array written by dump_json; bytes that are no such array are rejected.
validate_json(bytes) ==
  IF bytes.format = "json"
    THEN Return([i \in 1..Len(bytes.items) |->
                   [kind |-> bytes.items[i][1], content |-> bytes.items[i][2]]])
    ELSE Raise(<<"i","n","v","a","l","i","d"," ","J","S","O","N">>)

\* Lines 46-59: no file gives the empty list, and so does a file that cannot
\* be read as messages.
load_history(file) ==
  IF file = None THEN <<>>
  ELSE LET read == validate_json(Val(file))
       IN  IF read.ok THEN read.value ELSE <<>>

\* Lines 33-43, with the write succeeding: the file holds the serialised list.
save_history(ms) ==
  Some(dump_json(ms))

\* Mutant: the history file is left in place.
clear_history_KeepsFile(file) ==
  file

\* Lines 62-67: the file is removed if it exists.
clear_history(file) ==
  None

\* result.all_messages(): the history passed to the run, then the request and
\* the response of the run.
all_messages(history_passed, user_input, reply) ==
  history_passed \o << [kind |-> "request", content |-> user_input],
                       [kind |-> "response", content |-> reply] >>

\* The history file the CLI finds: none, an empty list, the list of an earlier
\* one-turn session, or bytes that are not a message list.
InitialFiles ==
  { None,
    save_history(<<>>),
    save_history(all_messages(<<>>, "hello", "Which postcode?")),
    Some([format |-> "text", items |-> <<>>]) }

CliInit ==
  /\ base_url = DEFAULT_BASE_URL
  /\ raw = RawOf(BasicScenario)
  /\ params = None
  /\ errors = <<>>
  /\ result = None
  /\ pc = "request"
  /\ assigned = {}
  /\ calls = 0
  /\ earlier = None
  /\ ThreadsIdle /\ LegacyIdle /\ AgentIdle
  /\ messages = <<>>
  /\ history \in InitialFiles
  /\ auto_open = FALSE
  /\ cli_pc = "off"

\* Lines 117-129: the agent is obtained and the saved history loaded.
Start ==
  /\ cli_pc = "off"
  /\ _agent_instance' = get_agent(_agent_instance, Some(create_default_dependencies), built + 1)
  /\ built' = built + 1
  /\ agent' = _agent_instance'
  /\ messages' = load_history(history)
  /\ cli_pc' = "prompt"
  /\ UNCHANGED <<history, auto_open, log_file, tool_return>>
  /\ UNCHANGED <<generatorVars, threadVars, legacyVars>>

\* Lines 186-193: the run returns and the message list is replaced by the
\* messages of the run.
ChatTurn ==
  /\ cli_pc = "prompt"
  /\ Len(messages) < 2 * MaxTurns
  /\ \E user_input \in {"E14 9WB", "100Mb please"} :
       messages' = all_messages(messages, user_input, "Here is your link")
  /\ cli_pc' = "display"
  /\ UNCHANGED <<history, auto_open>>
  /\ UNCHANGED <<generatorVars, threadVars, legacyVars, agentVars>>

\* Lines 195-206: the response is displayed, then the history saved.
AutoSave ==
  /\ cli_pc = "display"
  /\ history' = save_history(messages)
  /\ cli_pc' = "prompt"
  /\ UNCHANGED <<messages, auto_open>>
  /\ UNCHANGED <<generatorVars, threadVars, legacyVars, agentVars>>

\* Lines 186-190, 214: the run raises and the handler is entered.
ChatRaises ==
  /\ cli_pc = "prompt"
  /\ cli_pc' = "error"
  /\ UNCHANGED <<messages, history, auto_open>>
  /\ UNCHANGED <<generatorVars, threadVars, legacyVars, agentVars>>

\* Lines 214-216: the error is printed and the loop goes on.
ShowError ==
  /\ cli_pc = "error"
  /\ cli_pc' = "prompt"
  /\ UNCHANGED <<messages, history, auto_open>>
  /\ UNCHANGED <<generatorVars, threadVars, legacyVars, agentVars>>

\* Lines 151-156: /clear
Clear ==
  /\ cli_pc = "prompt"
  /\ built < MaxAgents
  /\ history' = clear_history(history)
  /\ messages' = <<>>
  /\ _agent_instance' = get_agent(None, Some(create_default_dependencies), built + 1)
  /\ built' = built + 1
  /\ agent' = _agent_instance'
  /\ UNCHANGED <<auto_open, cli_pc, log_file, tool_return>>
  /\ UNCHANGED <<generatorVars, threadVars, legacyVars>>

\* Lines 158-161: /load
Load ==
  /\ cli_pc = "prompt"
  /\ messages' = load_history(history)
  /\ UNCHANGED <<history, auto_open, cli_pc>>
  /\ UNCHANGED <<generatorVars, threadVars, legacyVars, agentVars>>

\* Lines 163-166: /save
Save ==
  /\ cli_pc = "prompt"
  /\ history' = save_history(messages)
  /\ UNCHANGED <<messages, auto_open, cli_pc>>
  /\ UNCHANGED <<generatorVars, threadVars, legacyVars, agentVars>>

\* Lines 168-172: /auto
Auto ==
  /\ cli_pc = "prompt"
  /\ auto_open' = ~auto_open
  /\ UNCHANGED <<messages, history, cli_pc>>
  /\ UNCHANGED <<generatorVars, threadVars, legacyVars, agentVars>>

\* Lines 174-182: /help
Help ==
  /\ cli_pc = "prompt"
  /\ UNCHANGED vars

\* Lines 144-148 and 208-212: /quit, or an interrupt at the prompt or while the
\* response is displayed; the history is saved and the loop left.
Quit ==
  /\ cli_pc \in {"prompt", "display"}
  /\ history' = save_history(messages)
  /\ cli_pc' = "exited"
  /\ UNCHANGED <<messages, auto_open>>
  /\ UNCHANGED <<generatorVars, threadVars, legacyVars, agentVars>>

CliNext ==
  \/ Start
  \/ ChatTurn
  \/ AutoSave
  \/ ChatRaises
  \/ ShowError
  \/ Clear
  \/ Load
  \/ Save
  \/ Auto
  \/ Help
  \/ Quit

CliSpec ==
  CliInit /\ [][CliNext]_vars

C28_DefaultKeysPresent ==
  Succeeded =>
    LET es == FragmentEntries(ResultUrl)
    IN  /\ \A k \in {"matryoshkaSpeed", "productType", "sortBy", "tab"} :
             \E i \in 1..Len(es) : es[i][1] = KeyChars(k) /\ es[i][2] # <<>>
        /\ es # <<>>
        /\ IsSubstring(<<"#","/","?">>, ResultUrl)

\* A successful generate of a request whose tab and matryoshkaSpeed were given
\* as empty strings and whose productType and sortBy were not given.
C28_Witness ==
  /\ Succeeded
  /\ raw.tab = Some(<<>>)
  /\ raw.matryoshkaSpeed = Some(<<>>)
  /\ raw.productType = None
  /\ raw.sortBy = None
  /\ IsSubstring(<<"&","t","a","b","=","a","l","l","d","e","a","l","s">>, ResultUrl)

(* ------------------------------------------------------------------ *)
(* C29: unset and default.                                             *)
(* ------------------------------------------------------------------ *)
\* The URL generate returns for the request's ParameterSet with one field
\* replaced.
UrlWith(field, value) ==
  generate(base_url, [RequestParams EXCEPT ![field] = value]).url

MissingWith(field, value) ==
  generate(base_url, [RequestParams EXCEPT ![field] = value]).missing_parameters

\* C29: with every other field equal, productType unset and productType
\* "broadband" give the same URL, so do sortBy unset and sortBy "Recommended",
\* and newLine unset and newLine false; the missing optional parameters name
\* productType and sortBy when they are unset and not when they are set.
C29_UnsetAsDefault ==
  Succeeded =>
    /\ UrlWith("productType", None) = UrlWith("productType", Some(<<"b","r","o","a","d","b","a","n","d">>))
    /\ UrlWith("sortBy", None) = UrlWith("sortBy", Some(<<"R","e","c","o","m","m","e","n","d","e","d">>))
    /\ UrlWith("newLine", None) = UrlWith("newLine", Some(FALSE))
    /\ RequestParams.productType \in {None, Some(<<"b","r","o","a","d","b","a","n","d">>)}
         => Val(result).url = UrlWith("productType", None)
    /\ RequestParams.sortBy \in {None, Some(<<"R","e","c","o","m","m","e","n","d","e","d">>)}
         => Val(result).url = UrlWith("sortBy", None)
    /\ RequestParams.newLine \in {None, Some(FALSE)}
         => Val(result).url = UrlWith("newLine", None)
    /\ \A f \in {"productType", "sortBy"} :
         /\ f \in Range(MissingWith(f, None))
         /\ f \notin Range(MissingWith(f, Some(IF f = "sortBy"
                                                 THEN <<"R","e","c","o","m","m","e","n","d","e","d">>
                                                 ELSE <<"b","r","o","a","d","b","a","n","d">>)))

\* A successful generate of a request that sets sortBy to Recommended and
\* newLine to false: its URL is that of the request without them.
C29_Witness ==
  /\ Succeeded
  /\ raw.sortBy = Some(<<"R","e","c","o","m","m","e","n","d","e","d">>)
  /\ raw.newLine = Some(FALSE)
  /\ Val(result).url = UrlWith("sortBy", None)
  /\ ~IsSubstring(<<"n","e","w","L","i","n","e">>, ResultUrl)
  /\ "sortBy" \notin Range(Val(result).missing_parameters)

(* ------------------------------------------------------------------ *)
(* C30: free text cannot add URL structure.                            *)
(* ------------------------------------------------------------------ *)
\* How often a character occurs in a string.
CountChar(s, c) ==
  Cardinality({i \in 1..Len(s) : s[i] = c})

\* C30: whatever currentProvider and providers hold, the fragment of a
\* successful URL has exactly one entry per non-empty field, under the key of
\* that field; the URL has one '&' fewer than entries and exactly one '#'.
C30_NoInjection ==
  (Succeeded /\ ~Contains(base_url, "#") /\ ~Contains(base_url, "&")) =>
    LET es == FragmentEntries(ResultUrl)
        emitted == RemoveEmpty(fragment_params(RequestParams))
    IN  /\ Len(es) = Len(emitted)
        /\ \A i \in 1..Len(es) :
             /\ es[i][1] = KeyChars(emitted[i][1])
             /\ es[i][1] \in Range(FRAGMENT_KEY_ORDER)
        /\ CountChar(ResultUrl, "&") = Len(es) - 1
        /\ CountChar(ResultUrl, "#") = 1

\* A successful generate of a request whose currentProvider holds '&', '=',
\* '?', '#' and a space.
C30_Witness ==
  /\ Succeeded
  /\ raw.currentProvider = Some(<<"A","&","b","=","c","?","#","d"," ","e">>)
  /\ IsSubstring(<<"c","u","r","r","e","n","t","P","r","o","v","i","d","e","r","=","A","%","2","6","b","%","3","D","c","%","3","F","%","2","3","d","%","2","0","e","&">>, ResultUrl)

====
